---- MODULE Spec2Model ----
(***************************************************************************)
(* Model of the Google Contacts MCP server.                                *)
(*                                                                         *)
(*  - the credential lifecycle: tools.init_service and                     *)
(*    GoogleContactsService.from_env / from_file / _authenticate           *)
(*    (specifications Spec and SpecThreads);                               *)
(*  - the write-body builder GoogleContactsService._build_contact_body     *)
(*    (specification SpecBody);                                            *)
(*  - the normaliser GoogleContactsService._format_contact_enhanced        *)
(*    (specification SpecFormat);                                          *)
(*  - GoogleContactsService.update_contact (specification SpecUpdate);     *)
(*  - GoogleContactsService.list_contacts (specification SpecList);        *)
(*  - GoogleContactsService.search_contacts, _manual_search_contacts and   *)
(*    get_contact (specification SpecSearch);                              *)
(*  - add_contacts_to_group and remove_contacts_from_group                 *)
(*    (specification SpecGroups);                                          *)
(*  - the registered tools of tools.py (specification SpecTools).          *)
(***************************************************************************)
EXTENDS Integers, Sequences, FiniteSets, TLC

VARIABLES
    envClient,          \* GOOGLE_CLIENT_ID and GOOGLE_CLIENT_SECRET are both configured
    envRefresh,         \* GOOGLE_REFRESH_TOKEN is configured
    credPaths,          \* config.credentials_paths: what lies at each path
    tokenFile,          \* the persisted token record at token_path
    contacts_service,   \* tools.contacts_service: 0 is None, n > 0 a service instance
    pc,                 \* per task: position inside init_service / _authenticate
    source,             \* per task: constructor in progress, "env" or "file"
    pathIdx,            \* per task: index of the for loop over credentials_paths
    credentials_info,   \* per task: truthiness of self.credentials_info
    creds,              \* per task: the local creds, <<>> is None
    via,                \* per task: how creds was obtained in this run
    inst,               \* per task: the instance under construction
    result,             \* per task: last value returned by init_service
    err,                \* per task: reason of the last GoogleContactsError
    grantCount,         \* number of run_local_server calls started in the process
    authRuns,           \* number of _authenticate executions started in the process
    calls,              \* number of init_service calls made in the process
    nextId,             \* number of service instances built so far
    contact_data,       \* _build_contact_body: the caller's field set
    bpc,                \* _build_contact_body: "idle", "input" or "done"
    built,              \* _build_contact_body: its outcome
    current_person,     \* _build_contact_body: the current raw record, <<>> is None
    upd,                \* one update_contact call: its locals, provider calls and outcome
    fmt,                \* one _format_contact_enhanced call: person, position, contact
    lst,                \* one list_contacts call: provider, arguments, locals and outcome
    srch,               \* one search_contacts or get_contact call
    grp,                \* one add_contacts_to_group or remove_contacts_from_group call
    tool                \* one invocation of a registered tool

authVars == <<envClient, envRefresh, credPaths, tokenFile, contacts_service, pc,
              source, pathIdx, credentials_info, creds, via, inst, result, err,
              grantCount, authRuns, calls, nextId>>
bodyVars == <<contact_data, bpc, built>>
callVars == <<current_person, upd, fmt, lst>>
opVars == <<srch, grp, tool>>
vars == <<envClient, envRefresh, credPaths, tokenFile, contacts_service, pc,
          source, pathIdx, credentials_info, creds, via, inst, result, err,
          grantCount, authRuns, calls, nextId, contact_data, bpc, built,
          current_person, upd, fmt, lst, srch, grp, tool>>

\* no search, group or tool call in progress
OpsIdle ==
    /\ srch = [pc |-> "idle"]
    /\ grp = [pc |-> "idle"]
    /\ tool = [pc |-> "idle"]

----------------------------------------------------------------------------
(* Bounds *)

NumTasks == 2
NumPaths == 2
MaxCalls == 3
MaxBirthdayLen == 5

Tasks == 1..NumTasks

----------------------------------------------------------------------------
(* Credentials as google.oauth2.credentials.Credentials exposes them to   *)
(* _authenticate: the access token, the expiry and the refresh token.     *)

Credentials(token, expiry, refresh_token) ==
    [token |-> token, expiry |-> expiry, refresh_token |-> refresh_token]

\* creds.expired: a credential without expiry never counts as expired
expired(c) == c.expiry = "past"

\* creds.valid: an access token that is not expired
valid(c) == c.token /\ ~expired(c)

\* records a token file written by an earlier run can hold
StoredRecords ==
    { Credentials(tk, ex, rt) : tk \in BOOLEAN, ex \in {"past", "future"}, rt \in BOOLEAN }

AbsentFile == [kind |-> "absent", data |-> <<>>]
MalformedFile == [kind |-> "malformed", data |-> <<>>]
TruncatedFile == [kind |-> "truncated", data |-> <<>>]

\* token.write(creds.to_json())
to_json(c) == [kind |-> "record", data |-> <<c>>]

\* Credentials.from_authorized_user_info(json.load(token_file), config.scopes)
from_authorized_user_info(f) == f.data[1]

TokenFiles == {AbsentFile, MalformedFile} \cup { to_json(c) : c \in StoredRecords }

PathKinds == {"missing", "malformed", "empty", "ok"}

----------------------------------------------------------------------------
(* tools.init_service and the GoogleContactsService constructors *)

Upd(f, t, v) == [f EXCEPT ![t] = v]

\* the cache test dropped: every call constructs a service again
CacheHit_never == FALSE

\* tools.py line 32: if contacts_service
CacheHit == contacts_service # 0

\* from_env line 109: if not client_id or not client_secret
MissingEnvCredentials == ~envClient

\* the client-identity test dropped before the grant flow
NoCredentialsInfo_skipped(t) == FALSE

\* _authenticate line 172: if not self.credentials_info
NoCredentialsInfo(t) == ~credentials_info[t]

\* the refresh secret of the environment preferred to the stored credential
UseEnvRefreshToken_overStored(t, c) == envRefresh /\ credentials_info[t]

\* _authenticate line 154: not creds and refresh_token and self.credentials_info
UseEnvRefreshToken(t, c) == c = <<>> /\ envRefresh /\ credentials_info[t]

\* _authenticate line 168: not creds or not creds.valid
NeedsAuthFlow(c) == c = <<>> \/ ~valid(c[1])

\* _authenticate line 169: creds and creds.expired and creds.refresh_token
CanRefresh(c) == c # <<>> /\ expired(c[1]) /\ c[1].refresh_token

\* init_service returns: the locals of the call and of the constructor are gone
DropLocals(t) ==
    /\ source' = Upd(source, t, "env")
    /\ pathIdx' = Upd(pathIdx, t, 1)
    /\ credentials_info' = Upd(credentials_info, t, FALSE)
    /\ creds' = Upd(creds, t, <<>>)
    /\ via' = Upd(via, t, "none")
    /\ inst' = Upd(inst, t, 0)
    /\ err' = Upd(err, t, "none")

\* a tool calls init_service(); the cached instance is returned when there is one
Invoke(t) ==
    /\ pc[t] = "idle"
    /\ calls < MaxCalls
    /\ calls' = calls + 1
    /\ IF CacheHit
         THEN /\ result' = Upd(result, t, contacts_service)
              /\ UNCHANGED <<pc, err>>
         ELSE /\ result' = Upd(result, t, -1)
              /\ pc' = Upd(pc, t, "from_env")
              /\ err' = Upd(err, t, "none")
    /\ UNCHANGED <<envClient, envRefresh, credPaths, tokenFile, contacts_service,
                   source, pathIdx, credentials_info, creds, via, inst,
                   grantCount, authRuns, nextId>>
    /\ UNCHANGED bodyVars
    /\ UNCHANGED callVars
    /\ UNCHANGED opVars

\* init_service called while no other call is in progress (the tools are
\* coroutines of one event loop and init_service never awaits)
InvokeSequential(t) ==
    /\ \A u \in Tasks : pc[u] = "idle"
    /\ Invoke(t)

\* GoogleContactsService.from_env up to cls(credentials_info, token_path)
FromEnv(t) ==
    /\ pc[t] = "from_env"
    /\ source' = Upd(source, t, "env")
    /\ IF MissingEnvCredentials
         THEN /\ err' = Upd(err, t, "missing_env")
              /\ pc' = Upd(pc, t, "failed")
              /\ UNCHANGED <<credentials_info, creds, via, authRuns>>
         ELSE /\ credentials_info' = Upd(credentials_info, t, TRUE)
              /\ creds' = Upd(creds, t, <<>>)
              /\ via' = Upd(via, t, "none")
              /\ authRuns' = authRuns + 1
              /\ pc' = Upd(pc, t, "load")
              /\ UNCHANGED err
    /\ UNCHANGED <<envClient, envRefresh, credPaths, tokenFile, contacts_service,
                   pathIdx, inst, result, grantCount, calls, nextId>>
    /\ UNCHANGED bodyVars
    /\ UNCHANGED callVars
    /\ UNCHANGED opVars

\* init_service: except GoogleContactsError around from_env and from_file
HandleError(t) ==
    /\ pc[t] = "failed"
    /\ pathIdx' = Upd(pathIdx, t, IF source[t] = "env" THEN 1 ELSE pathIdx[t] + 1)
    /\ pc' = Upd(pc, t, "paths")
    /\ UNCHANGED <<envClient, envRefresh, credPaths, tokenFile, contacts_service,
                   source, credentials_info, creds, via, inst, result, err,
                   grantCount, authRuns, calls, nextId>>
    /\ UNCHANGED bodyVars
    /\ UNCHANGED callVars
    /\ UNCHANGED opVars

\* init_service: for path in config.credentials_paths: if path.exists()
NextPath(t) ==
    /\ pc[t] = "paths"
    /\ IF pathIdx[t] > Len(credPaths)
         THEN /\ result' = Upd(result, t, 0)
              /\ pc' = Upd(pc, t, "idle")
              /\ DropLocals(t)
         ELSE IF credPaths[pathIdx[t]] = "missing"
                THEN /\ pathIdx' = Upd(pathIdx, t, pathIdx[t] + 1)
                     /\ UNCHANGED <<pc, result, source>>
                     /\ UNCHANGED <<credentials_info, creds, via, inst, err>>
                ELSE /\ pc' = Upd(pc, t, "from_file")
                     /\ source' = Upd(source, t, "file")
                     /\ UNCHANGED <<pathIdx, result>>
                     /\ UNCHANGED <<credentials_info, creds, via, inst, err>>
    /\ UNCHANGED <<envClient, envRefresh, credPaths, tokenFile, contacts_service,
                   grantCount, authRuns, calls, nextId>>
    /\ UNCHANGED bodyVars
    /\ UNCHANGED callVars
    /\ UNCHANGED opVars

\* GoogleContactsService.from_file up to cls(credentials_info, token_path)
FromFile(t) ==
    /\ pc[t] = "from_file"
    /\ IF credPaths[pathIdx[t]] = "malformed"
         THEN /\ err' = Upd(err, t, "bad_file")
              /\ pc' = Upd(pc, t, "failed")
              /\ UNCHANGED <<credentials_info, creds, via, authRuns>>
         ELSE /\ credentials_info' = Upd(credentials_info, t, credPaths[pathIdx[t]] = "ok")
              /\ creds' = Upd(creds, t, <<>>)
              /\ via' = Upd(via, t, "none")
              /\ authRuns' = authRuns + 1
              /\ pc' = Upd(pc, t, "load")
              /\ UNCHANGED err
    /\ UNCHANGED <<envClient, envRefresh, credPaths, tokenFile, contacts_service,
                   source, pathIdx, inst, result, grantCount, calls, nextId>>
    /\ UNCHANGED bodyVars
    /\ UNCHANGED callVars
    /\ UNCHANGED opVars

----------------------------------------------------------------------------
(* GoogleContactsService._authenticate *)

\* lines 139-165: read the stored token, else build creds from the refresh secret
LoadToken(t) ==
    /\ pc[t] = "load"
    /\ IF tokenFile.kind \in {"malformed", "truncated"}
         THEN /\ err' = Upd(err, t, "token_parse")
              /\ pc' = Upd(pc, t, "failed")
              /\ UNCHANGED <<creds, via>>
         ELSE /\ LET stored == IF tokenFile.kind = "record"
                                 THEN <<from_authorized_user_info(tokenFile)>>
                                 ELSE <<>>
                 IN IF UseEnvRefreshToken(t, stored)
                      THEN /\ creds' = Upd(creds, t, <<Credentials(FALSE, "none", TRUE)>>)
                           /\ via' = Upd(via, t, "env_refresh")
                      ELSE /\ creds' = Upd(creds, t, stored)
                           /\ via' = Upd(via, t, IF stored = <<>> THEN "none" ELSE "stored")
              /\ pc' = Upd(pc, t, "decide")
              /\ UNCHANGED err
    /\ UNCHANGED <<envClient, envRefresh, credPaths, tokenFile, contacts_service,
                   source, pathIdx, credentials_info, inst, result,
                   grantCount, authRuns, calls, nextId>>
    /\ UNCHANGED bodyVars
    /\ UNCHANGED callVars
    /\ UNCHANGED opVars

\* lines 168-178: use creds as they are, refresh them, or start the grant flow
Decide(t) ==
    /\ pc[t] = "decide"
    /\ IF ~NeedsAuthFlow(creds[t])
         THEN /\ pc' = Upd(pc, t, "build")
              /\ UNCHANGED <<err, grantCount>>
         ELSE IF CanRefresh(creds[t])
                THEN /\ pc' = Upd(pc, t, "refreshing")
                     /\ UNCHANGED <<err, grantCount>>
                ELSE IF NoCredentialsInfo(t)
                       THEN /\ err' = Upd(err, t, "no_info")
                            /\ pc' = Upd(pc, t, "failed")
                            /\ UNCHANGED grantCount
                       ELSE /\ pc' = Upd(pc, t, "granting")
                            /\ grantCount' = grantCount + 1
                            /\ UNCHANGED err
    /\ UNCHANGED <<envClient, envRefresh, credPaths, tokenFile, contacts_service,
                   source, pathIdx, credentials_info, creds, via, inst, result,
                   authRuns, calls, nextId>>
    /\ UNCHANGED bodyVars
    /\ UNCHANGED callVars
    /\ UNCHANGED opVars

\* the save placed in the grant branch only: refreshed creds go straight to build
Refresh_unsaved(t) ==
    /\ pc[t] = "refreshing"
    /\ \E ok \in BOOLEAN :
         IF ok
           THEN /\ creds' = Upd(creds, t, <<Credentials(TRUE, "future", creds[t][1].refresh_token)>>)
                /\ via' = Upd(via, t, "refresh")
                /\ pc' = Upd(pc, t, "build")
                /\ UNCHANGED err
           ELSE /\ err' = Upd(err, t, "refresh_failed")
                /\ pc' = Upd(pc, t, "failed")
                /\ UNCHANGED <<creds, via>>
    /\ UNCHANGED <<envClient, envRefresh, credPaths, tokenFile, contacts_service,
                   source, pathIdx, credentials_info, inst, result,
                   grantCount, authRuns, calls, nextId>>
    /\ UNCHANGED bodyVars
    /\ UNCHANGED callVars
    /\ UNCHANGED opVars

\* line 170: creds.refresh(Request()) returns or raises
Refresh(t) ==
    /\ pc[t] = "refreshing"
    /\ \E ok \in BOOLEAN :
         IF ok
           THEN /\ creds' = Upd(creds, t, <<Credentials(TRUE, "future", creds[t][1].refresh_token)>>)
                /\ via' = Upd(via, t, "refresh")
                /\ pc' = Upd(pc, t, "open")
                /\ UNCHANGED err
           ELSE /\ err' = Upd(err, t, "refresh_failed")
                /\ pc' = Upd(pc, t, "failed")
                /\ UNCHANGED <<creds, via>>
    /\ UNCHANGED <<envClient, envRefresh, credPaths, tokenFile, contacts_service,
                   source, pathIdx, credentials_info, inst, result,
                   grantCount, authRuns, calls, nextId>>
    /\ UNCHANGED bodyVars
    /\ UNCHANGED callVars
    /\ UNCHANGED opVars

\* line 178: flow.run_local_server(port=0) returns credentials or raises
Grant(t) ==
    /\ pc[t] = "granting"
    /\ \E ok \in BOOLEAN, rt \in BOOLEAN :
         IF ok
           THEN /\ creds' = Upd(creds, t, <<Credentials(TRUE, "future", rt)>>)
                /\ via' = Upd(via, t, "grant")
                /\ pc' = Upd(pc, t, "open")
                /\ UNCHANGED err
           ELSE /\ err' = Upd(err, t, "grant_failed")
                /\ pc' = Upd(pc, t, "failed")
                /\ UNCHANGED <<creds, via>>
    /\ UNCHANGED <<envClient, envRefresh, credPaths, tokenFile, contacts_service,
                   source, pathIdx, credentials_info, inst, result,
                   grantCount, authRuns, calls, nextId>>
    /\ UNCHANGED bodyVars
    /\ UNCHANGED callVars
    /\ UNCHANGED opVars

\* line 181: open(token_path, "w") truncates the token file
OpenToken(t) ==
    /\ pc[t] = "open"
    /\ tokenFile' = TruncatedFile
    /\ pc' = Upd(pc, t, "write")
    /\ UNCHANGED <<envClient, envRefresh, credPaths, contacts_service,
                   source, pathIdx, credentials_info, creds, via, inst, result, err,
                   grantCount, authRuns, calls, nextId>>
    /\ UNCHANGED bodyVars
    /\ UNCHANGED callVars
    /\ UNCHANGED opVars

\* line 182: token.write(creds.to_json()) and the close of the file, or an IOError
WriteToken(t) ==
    /\ pc[t] = "write"
    /\ \E ok \in BOOLEAN :
         IF ok
           THEN /\ tokenFile' = to_json(creds[t][1])
                /\ pc' = Upd(pc, t, "build")
                /\ UNCHANGED err
           ELSE /\ err' = Upd(err, t, "write_failed")
                /\ pc' = Upd(pc, t, "failed")
                /\ UNCHANGED tokenFile
    /\ UNCHANGED <<envClient, envRefresh, credPaths, contacts_service,
                   source, pathIdx, credentials_info, creds, via, inst, result,
                   grantCount, authRuns, calls, nextId>>
    /\ UNCHANGED bodyVars
    /\ UNCHANGED callVars
    /\ UNCHANGED opVars

\* line 192 and __init__ line 64: build("people", "v1", credentials=creds)
Build(t) ==
    /\ pc[t] = "build"
    /\ \E ok \in BOOLEAN :
         IF ok
           THEN /\ nextId' = nextId + 1
                /\ inst' = Upd(inst, t, nextId + 1)
                /\ pc' = Upd(pc, t, "assign")
                /\ UNCHANGED err
           ELSE /\ err' = Upd(err, t, "build_failed")
                /\ pc' = Upd(pc, t, "failed")
                /\ UNCHANGED <<nextId, inst>>
    /\ UNCHANGED <<envClient, envRefresh, credPaths, tokenFile, contacts_service,
                   source, pathIdx, credentials_info, creds, via, result,
                   grantCount, authRuns, calls>>
    /\ UNCHANGED bodyVars
    /\ UNCHANGED callVars
    /\ UNCHANGED opVars

\* init_service lines 38-40 and 49-51: contacts_service = ...; return contacts_service
Assign(t) ==
    /\ pc[t] = "assign"
    /\ contacts_service' = inst[t]
    /\ result' = Upd(result, t, inst[t])
    /\ pc' = Upd(pc, t, "idle")
    /\ DropLocals(t)
    /\ UNCHANGED <<envClient, envRefresh, credPaths, tokenFile,
                   grantCount, authRuns, calls, nextId>>
    /\ UNCHANGED bodyVars
    /\ UNCHANGED callVars
    /\ UNCHANGED opVars

Step(t) ==
    \/ FromEnv(t)
    \/ HandleError(t)
    \/ NextPath(t)
    \/ FromFile(t)
    \/ LoadToken(t)
    \/ Decide(t)
    \/ Refresh(t)
    \/ Grant(t)
    \/ OpenToken(t)
    \/ WriteToken(t)
    \/ Build(t)
    \/ Assign(t)

\* no builder, update, format or list call in progress
BodyIdleButOps ==
    /\ contact_data = <<>>
    /\ bpc = "idle"
    /\ built = <<>>
    /\ current_person = <<>>
    /\ upd = [pc |-> "idle"]
    /\ fmt = [pc |-> "idle"]
    /\ lst = [pc |-> "idle"]

BodyIdle ==
    /\ OpsIdle
    /\ BodyIdleButOps

\* the process right after start: nothing cached, no call in progress
Init ==
    /\ envClient \in BOOLEAN
    /\ envRefresh \in BOOLEAN
    /\ credPaths \in [1..NumPaths -> PathKinds]
    /\ tokenFile \in TokenFiles
    /\ contacts_service = 0
    /\ pc = [t \in Tasks |-> "idle"]
    /\ source = [t \in Tasks |-> "env"]
    /\ pathIdx = [t \in Tasks |-> 1]
    /\ credentials_info = [t \in Tasks |-> FALSE]
    /\ creds = [t \in Tasks |-> <<>>]
    /\ via = [t \in Tasks |-> "none"]
    /\ inst = [t \in Tasks |-> 0]
    /\ result = [t \in Tasks |-> -1]
    /\ err = [t \in Tasks |-> "none"]
    /\ grantCount = 0
    /\ authRuns = 0
    /\ calls = 0
    /\ nextId = 0
    /\ BodyIdle

\* one init_service call at a time
Next == \E t \in Tasks : InvokeSequential(t) \/ Step(t)

Spec == Init /\ [][Next]_vars

\* init_service called from concurrent threads
NextThreads == \E t \in Tasks : Invoke(t) \/ Step(t)

SpecThreads == Init /\ [][NextThreads]_vars

----------------------------------------------------------------------------
(* Raw provider records: a person is a dict from field-group names to lists *)
(* of entry dicts; a dict is a function on the keys it holds                *)

MaxEntries == 3

EmptyDict == [k \in {} |-> <<>>]

\* d.get(k): <<>> is None
get(d, k) == IF k \in DOMAIN d THEN <<d[k]>> ELSE <<>>

\* d.get(k, default)
getd(d, k, default) == IF k \in DOMAIN d THEN d[k] ELSE default

\* the lists of at most MaxEntries entries over a pool of entries
Lists(pool) == UNION { [1..n -> pool] : n \in 0..MaxEntries }

\* entries the provider can return in each field group
EntryPool ==
    [names |-> { [givenName |-> "Ann", familyName |-> "Lee", displayName |-> "Ann Lee"],
                 [givenName |-> "Bo"] },
     nicknames |-> { [value |-> "annie"], [type |-> "DEFAULT"] },
     emailAddresses |-> { [value |-> "a@x", type |-> "home", formattedType |-> "Home"],
                          [type |-> "work"] },
     phoneNumbers |-> { [value |-> "555", type |-> "mobile", formattedType |-> "Mobile"],
                        [value |-> "777"] },
     addresses |-> { [formattedValue |-> "1 Main St", type |-> "home", streetAddress |-> "1 Main St",
                      city |-> "Ayr", region |-> "AY", postalCode |-> "1", country |-> "UK"],
                     [city |-> "Bonn"] },
     organizations |-> { [name |-> "Acme", title |-> "CTO", department |-> "R&D"],
                         [name |-> "Bolt"] },
     birthdays |-> { [date |-> d] : d \in { [year |-> 1990, month |-> 5, day |-> 17],
                                            [month |-> 5, day |-> 17],
                                            [month |-> 5],
                                            [day |-> 17],
                                            [year |-> 1990],
                                            EmptyDict } }
                     \cup { [text |-> "spring"] },
     urls |-> { [value |-> "http://a", type |-> "blog", formattedType |-> "Blog"],
                [value |-> "http://b"] },
     biographies |-> { [value |-> "note a"], [contentType |-> "TEXT_PLAIN"] },
     relations |-> { [person |-> "Al", type |-> "spouse", formattedType |-> "Spouse"],
                     [person |-> "Bea"] },
     events |-> { [type |-> "anniversary", formattedType |-> "Anniversary",
                   date |-> [month |-> 6, day |-> 1]],
                  [type |-> "other", date |-> EmptyDict],
                  [formattedType |-> "Other"] },
     userDefined |-> { [key |-> "k1", value |-> "v1"], [key |-> "k2"] },
     photos |-> { [url |-> "http://p/1"], [default |-> "true"] },
     memberships |-> { [contactGroupMembership |-> [contactGroupResourceName |-> "contactGroups/g1"]],
                       [contactGroupMembership |-> EmptyDict],
                       [domainMembership |-> EmptyDict] }]

FieldGroups == DOMAIN EntryPool

Identity == [resourceName |-> "people/c1", etag |-> "e1"]

\* a person with the given field groups populated
PersonWith(groups) == groups @@ Identity

\* persons with at most two field groups present; the groups are normalized
\* independently of each other
PersonInputs ==
    {EmptyDict, Identity}
      \cup { PersonWith(g :> l) : g \in FieldGroups, l \in {<<>>} }
      \cup UNION { { PersonWith(g :> l) : l \in Lists(EntryPool[g]) } : g \in FieldGroups }
      \cup { PersonWith(("emailAddresses" :> la) @@ ("phoneNumbers" :> lb)) :
                la \in Lists(EntryPool["emailAddresses"]),
                lb \in Lists(EntryPool["phoneNumbers"]) }
      \cup { PersonWith(("names" :> <<n>>) @@ ("birthdays" :> <<b>>)) :
                n \in EntryPool["names"], b \in EntryPool["birthdays"] }

\* [f(x) for x in l]
Map(l, F(_)) == [i \in 1..Len(l) |-> F(l[i])]

----------------------------------------------------------------------------
(* GoogleContactsService._build_contact_body *)

Digits == {"0", "1", "2", "3", "4", "5", "6", "7", "8", "9"}

DigitVal == ("0" :> 0) @@ ("1" :> 1) @@ ("2" :> 2) @@ ("3" :> 3) @@ ("4" :> 4) @@
            ("5" :> 5) @@ ("6" :> 6) @@ ("7" :> 7) @@ ("8" :> 8) @@ ("9" :> 9)

\* str.split("-"): the pieces between the dashes, empty pieces included
RECURSIVE split(_)
split(s) ==
    IF s = <<>>
      THEN << <<>> >>
      ELSE LET rest == split(Tail(s))
           IN IF Head(s) = "-"
                THEN << <<>> >> \o rest
                ELSE << <<Head(s)>> \o rest[1] >> \o Tail(rest)

\* int(part) raises ValueError unless part is a non-empty run of digits
IntRaises(part) == part = <<>> \/ \E i \in 1..Len(part) : part[i] \notin Digits

\* int(part) of a run of decimal digits
RECURSIVE int(_)
int(part) ==
    IF part = <<>>
      THEN 0
      ELSE 10 * int(SubSeq(part, 1, Len(part) - 1)) + DigitVal[part[Len(part)]]

NoGroup == [raised |-> FALSE, set |-> FALSE, value |-> <<>>]
Group(v) == [raised |-> FALSE, set |-> TRUE, value |-> v]
ValueError == [raised |-> TRUE, set |-> FALSE, value |-> <<>>]

\* lines 725-726
NicknamesGroup(cd) ==
    IF "nickname" \in DOMAIN cd
      THEN Group(<<[value |-> cd["nickname"]]>>)
      ELSE NoGroup

\* lines 804: if len(parts) == 3
HasThreeParts(parts) == Len(parts) = 3

\* lines 799-815
BirthdaysGroup(cd) ==
    IF "birthday" \in DOMAIN cd
      THEN LET birthday_data == cd["birthday"]
           IN IF birthday_data.isstr
                THEN LET parts == split(birthday_data.chars)
                     IN IF HasThreeParts(parts)
                          THEN IF \E i \in 1..3 : IntRaises(parts[i])
                                 THEN ValueError
                                 ELSE Group(<<[date |-> [year |-> int(parts[1]),
                                                         month |-> int(parts[2]),
                                                         day |-> int(parts[3])]]>>)
                          ELSE NoGroup
                ELSE Group(<<birthday_data.dict>>)
      ELSE NoGroup

\* lines 830-831
BiographiesGroup(cd) ==
    IF "notes" \in DOMAIN cd
      THEN Group(<<[value |-> cd["notes"]]>>)
      ELSE NoGroup

\* d[k] = v on a copy of d
SetKey(d, k, v) == (k :> v) @@ d

\* current_person and current_person.get(g)
HasGroup(cp, g) == cp # <<>> /\ DOMAIN cp[1] # {} /\ getd(cp[1], g, <<>>) # <<>>

\* the loops over a plural key: a str item becomes {key: item}, a dict is kept
PluralItems(items, key) ==
    Map(items, LAMBDA x : IF x.isstr THEN key :> x.str ELSE x.dict)

\* names[0] after lines 717-720
NamedFirst(cd, name) ==
    LET g == IF "given_name" \in DOMAIN cd
               THEN SetKey(name, "givenName", cd["given_name"]) ELSE name
    IN IF "family_name" \in DOMAIN cd
         THEN SetKey(g, "familyName", cd["family_name"]) ELSE g

\* lines 708-722
NamesGroup(cd, cp) ==
    IF "given_name" \in DOMAIN cd \/ "family_name" \in DOMAIN cd
      THEN LET names == IF HasGroup(cp, "names") THEN cp[1]["names"] ELSE <<EmptyDict>>
           IN Group(<<NamedFirst(cd, names[1])>> \o Tail(names))
      ELSE NoGroup

\* the singular key handled like website: the group replaced by one entry
SingularOrPlural_replacing(cd, cp, plural, singular, group, key) ==
    IF plural \in DOMAIN cd
      THEN Group(PluralItems(cd[plural], key))
      ELSE IF singular \in DOMAIN cd
             THEN Group(<<key :> cd[singular]>>)
             ELSE NoGroup

\* lines 728-748 (emails / email) and 750-770 (phones / phone)
SingularOrPlural(cd, cp, plural, singular, group, key) ==
    IF plural \in DOMAIN cd
      THEN Group(PluralItems(cd[plural], key))
      ELSE IF singular \in DOMAIN cd
             THEN IF HasGroup(cp, group)
                    THEN LET entries == cp[1][group]
                         IN Group(<<SetKey(entries[1], key, cd[singular])>> \o Tail(entries))
                    ELSE Group(<<key :> cd[singular]>>)
             ELSE NoGroup

EmailAddressesGroup(cd, cp) ==
    SingularOrPlural(cd, cp, "emails", "email", "emailAddresses", "value")

PhoneNumbersGroup(cd, cp) ==
    SingularOrPlural(cd, cp, "phones", "phone", "phoneNumbers", "value")

\* lines 772-782
AddressesGroup(cd) ==
    IF "addresses" \in DOMAIN cd
      THEN Group(PluralItems(cd["addresses"], "formattedValue"))
      ELSE IF "address" \in DOMAIN cd
             THEN Group(<<[formattedValue |-> cd["address"]]>>)
             ELSE NoGroup

\* lines 784-796
OrganizationsGroup(cd, cp) ==
    IF "organization" \in DOMAIN cd \/ "job_title" \in DOMAIN cd
      THEN LET org == IF HasGroup(cp, "organizations")
                        THEN cp[1]["organizations"][1] ELSE EmptyDict
               named == IF "organization" \in DOMAIN cd
                          THEN SetKey(org, "name", cd["organization"]) ELSE org
           IN Group(<<IF "job_title" \in DOMAIN cd
                        THEN SetKey(named, "title", cd["job_title"]) ELSE named>>)
      ELSE NoGroup

\* lines 817-827
UrlsGroup(cd) ==
    IF "urls" \in DOMAIN cd
      THEN Group(PluralItems(cd["urls"], "value"))
      ELSE IF "website" \in DOMAIN cd
             THEN Group(<<[value |-> cd["website"]]>>)
             ELSE NoGroup

\* lines 833-841
RelationsGroup(cd) ==
    IF "relations" \in DOMAIN cd
      THEN Group(PluralItems(cd["relations"], "person"))
      ELSE NoGroup

\* lines 843-845
EventsGroup(cd) ==
    IF "events" \in DOMAIN cd THEN Group(cd["events"]) ELSE NoGroup

\* lines 847-849
UserDefinedGroup(cd) ==
    IF "custom_fields" \in DOMAIN cd THEN Group(cd["custom_fields"]) ELSE NoGroup

\* entry 0 of a group of the current record after the call: names.copy() and
\* emails.copy() are shallow, so the assignments of lines 718, 720, 743 and
\* 765 write into the dicts of current_person
MutatedGroup(cd, cp, group) ==
    LET entries == cp[1][group]
        first ==
            CASE group = "names" -> NamedFirst(cd, entries[1])
              [] group = "emailAddresses" ->
                   IF "email" \in DOMAIN cd /\ "emails" \notin DOMAIN cd
                     THEN SetKey(entries[1], "value", cd["email"]) ELSE entries[1]
              [] group = "phoneNumbers" ->
                   IF "phone" \in DOMAIN cd /\ "phones" \notin DOMAIN cd
                     THEN SetKey(entries[1], "value", cd["phone"]) ELSE entries[1]
    IN <<first>> \o Tail(entries)

\* current_person as the call leaves it
MutatedPerson(cd, cp) ==
    IF cp = <<>>
      THEN <<>>
      ELSE << [g \in DOMAIN cp[1] |->
                 IF g \in {"names", "emailAddresses", "phoneNumbers"} /\ HasGroup(cp, g)
                   THEN MutatedGroup(cd, cp, g)
                   ELSE cp[1][g]] >>

Field(name, g) == IF g.set THEN name :> g.value ELSE [k \in {} |-> <<>>]

\* the body returned, or the exception that leaves the function
_build_contact_body(cd, cp) ==
    LET bd == BirthdaysGroup(cd)
    IN IF bd.raised
         THEN [raised |-> TRUE, body |-> [k \in {} |-> <<>>], current |-> MutatedPerson(cd, cp)]
         ELSE [raised |-> FALSE,
               body |-> Field("names", NamesGroup(cd, cp))
                          @@ Field("nicknames", NicknamesGroup(cd))
                          @@ Field("emailAddresses", EmailAddressesGroup(cd, cp))
                          @@ Field("phoneNumbers", PhoneNumbersGroup(cd, cp))
                          @@ Field("addresses", AddressesGroup(cd))
                          @@ Field("organizations", OrganizationsGroup(cd, cp))
                          @@ Field("birthdays", bd)
                          @@ Field("urls", UrlsGroup(cd))
                          @@ Field("biographies", BiographiesGroup(cd))
                          @@ Field("relations", RelationsGroup(cd))
                          @@ Field("events", EventsGroup(cd))
                          @@ Field("userDefined", UserDefinedGroup(cd)),
               current |-> MutatedPerson(cd, cp)]

(* inputs *)

Chars == {"1", "2", "a", "-"}

IsoSample == <<"1", "9", "9", "0", "-", "0", "2", "-", "0", "3">>
NotADate == <<"n", "o", "t", "-", "a", "-", "d", "a", "t", "e">>

BirthdayStrings ==
    UNION { [1..n -> Chars] : n \in 0..MaxBirthdayLen } \cup {IsoSample, NotADate}

NoDict == [date |-> [year |-> 0, month |-> 0, day |-> 0]]
BirthdayDicts == { [date |-> [year |-> 1990, month |-> 2, day |-> 3]] }

BirthdayValues ==
    { [isstr |-> TRUE, chars |-> s, dict |-> NoDict] : s \in BirthdayStrings }
      \cup { [isstr |-> FALSE, chars |-> <<>>, dict |-> d] : d \in BirthdayDicts }

Restrict(f, K) == [k \in K |-> f[k]]

ContactDataInputs ==
    { Restrict([birthday |-> b, nickname |-> "nick", notes |-> "note"], K) :
        b \in BirthdayValues, K \in SUBSET {"birthday", "nickname", "notes"} }

StrItem(str) == [isstr |-> TRUE, str |-> str, dict |-> EmptyDict]
DictItem(dict) == [isstr |-> FALSE, str |-> "", dict |-> dict]

\* the keys _build_contact_body and update_contact read
RecognizedKeys ==
    {"given_name", "family_name", "nickname", "email", "emails", "phone", "phones",
     "address", "addresses", "organization", "job_title", "birthday", "website", "urls",
     "notes", "relations", "events", "custom_fields"}

\* and a key they do not know
AllKeys == RecognizedKeys \cup {"middle_name"}

Singulars ==
    [given_name |-> "Gia", family_name |-> "Fox", nickname |-> "nick", email |-> "new@x",
     phone |-> "999", address |-> "9 New Rd", organization |-> "NewCo", job_title |-> "CEO",
     website |-> "http://new", notes |-> "note", middle_name |-> "Mo"]

\* three ways to fill every key: plural keys as lists of strings, as lists of
\* dicts and strings, and as empty lists
FieldValues ==
    { Singulars @@
        [birthday |-> [isstr |-> TRUE, chars |-> IsoSample, dict |-> NoDict],
         emails |-> <<StrItem("p@x"), StrItem("q@x")>>,
         phones |-> <<StrItem("111"), StrItem("222")>>,
         addresses |-> <<StrItem("1 A St"), StrItem("2 B St")>>,
         urls |-> <<StrItem("http://p"), StrItem("http://q")>>,
         relations |-> <<StrItem("Pat")>>,
         events |-> <<[type |-> "anniversary", date |-> [month |-> 6, day |-> 1]]>>,
         custom_fields |-> <<[key |-> "k", value |-> "v"]>>],
      Singulars @@
        [birthday |-> [isstr |-> FALSE, chars |-> <<>>,
                       dict |-> [date |-> [year |-> 1990, month |-> 2, day |-> 3]]],
         emails |-> <<DictItem([value |-> "p@x", type |-> "work"]), StrItem("q@x")>>,
         phones |-> <<DictItem([value |-> "111", type |-> "home"]), StrItem("222")>>,
         addresses |-> <<DictItem([city |-> "Pau"]), StrItem("2 B St")>>,
         urls |-> <<DictItem([value |-> "http://p", type |-> "blog"]), StrItem("http://q")>>,
         relations |-> <<DictItem([person |-> "Pat", type |-> "friend"]), StrItem("Quin")>>,
         events |-> <<[type |-> "other"], [type |-> "anniversary", date |-> [month |-> 6, day |-> 1]]>>,
         custom_fields |-> <<[key |-> "k", value |-> "v"], [key |-> "l", value |-> "w"]>>],
      Singulars @@
        [birthday |-> [isstr |-> TRUE, chars |-> NotADate, dict |-> NoDict],
         emails |-> <<>>, phones |-> <<>>, addresses |-> <<>>, urls |-> <<>>,
         relations |-> <<>>, events |-> <<>>, custom_fields |-> <<>>] }

MaxKeys == 2

\* a birthday string that does not split into three parts
YearOnly == [isstr |-> TRUE, chars |-> <<"1", "9", "9", "0">>, dict |-> NoDict]

\* field sets of at most MaxKeys keys, and the field set with every key
KeyedInputs ==
    { Restrict(v, K) : v \in FieldValues \cup { [w EXCEPT !["birthday"] = YearOnly] : w \in FieldValues },
                       K \in { K \in SUBSET AllKeys : Cardinality(K) <= MaxKeys } \cup {AllKeys} }

\* the groups of the current record that updates read or replace
BuilderGroups == {"names", "nicknames", "emailAddresses", "phoneNumbers", "organizations",
                  "urls", "biographies"}

\* a record with two different entries in each of these groups
FullPerson ==
    PersonWith([g \in BuilderGroups |->
                  CHOOSE l \in [1..2 -> EntryPool[g]] : l[1] # l[2]])

\* current_person: None, an empty record, or a record with one or all groups
CurrentPersons ==
    {<<>>, <<EmptyDict>>, <<Identity>>, <<FullPerson>>}
      \cup UNION { { <<PersonWith(g :> l)>> : l \in Lists(EntryPool[g]) } : g \in BuilderGroups }

\* a caller runs _build_contact_body on its field set
BuildBody ==
    /\ bpc = "input"
    /\ built' = _build_contact_body(contact_data, current_person)
    /\ bpc' = "done"
    /\ UNCHANGED contact_data
    /\ UNCHANGED authVars
    /\ UNCHANGED callVars
    /\ UNCHANGED opVars

AuthIdle ==
    /\ envClient = FALSE
    /\ envRefresh = FALSE
    /\ credPaths = [i \in 1..NumPaths |-> "missing"]
    /\ tokenFile = AbsentFile
    /\ contacts_service = 0
    /\ pc = [t \in Tasks |-> "idle"]
    /\ source = [t \in Tasks |-> "env"]
    /\ pathIdx = [t \in Tasks |-> 1]
    /\ credentials_info = [t \in Tasks |-> FALSE]
    /\ creds = [t \in Tasks |-> <<>>]
    /\ via = [t \in Tasks |-> "none"]
    /\ inst = [t \in Tasks |-> 0]
    /\ result = [t \in Tasks |-> -1]
    /\ err = [t \in Tasks |-> "none"]
    /\ grantCount = 0
    /\ authRuns = 0
    /\ calls = 0
    /\ nextId = 0

InitBody ==
    /\ AuthIdle
    /\ OpsIdle
    /\ \/ contact_data \in ContactDataInputs /\ current_person = <<>>
       \/ contact_data \in KeyedInputs /\ current_person \in CurrentPersons
    /\ bpc = "input"
    /\ built = [raised |-> FALSE, body |-> [k \in {} |-> <<>>], current |-> <<>>]
    /\ upd = [pc |-> "idle"]
    /\ fmt = [pc |-> "idle"]
    /\ lst = [pc |-> "idle"]

NextBody == BuildBody

SpecBody == InitBody /\ [][NextBody]_vars

----------------------------------------------------------------------------
(* GoogleContactsService._format_contact_enhanced *)

\* line 855
FormatIdentity(person) ==
    [resourceName |-> get(person, "resourceName"), etag |-> get(person, "etag")]

\* lines 857-870
FormatNames(person) ==
    LET names == getd(person, "names", <<>>)
    IN IF names # <<>>
         THEN LET name == names[1]
              IN [givenName |-> getd(name, "givenName", ""),
                  familyName |-> getd(name, "familyName", ""),
                  displayName |-> getd(name, "displayName", ""),
                  middleName |-> getd(name, "middleName", ""),
                  honorificPrefix |-> getd(name, "honorificPrefix", ""),
                  honorificSuffix |-> getd(name, "honorificSuffix", "")]
         ELSE EmptyDict

\* lines 872-875
FormatNickname(person) ==
    LET nicknames == getd(person, "nicknames", <<>>)
    IN IF nicknames # <<>>
         THEN [nickname |-> getd(nicknames[1], "value", "")]
         ELSE EmptyDict

FormatValueEntry(e) ==
    [value |-> getd(e, "value", ""), type |-> getd(e, "type", ""),
     label |-> getd(e, "formattedType", "")]

\* the legacy email kept although emails is empty, or taken from the last entry
FormatEmails_lastEntry(person) ==
    LET emails == getd(person, "emailAddresses", <<>>)
    IN [emails |-> Map(emails, FormatValueEntry)]
         @@ (IF emails # <<>>
               THEN [email |-> getd(emails[Len(emails)], "value", "")]
               ELSE EmptyDict)

\* lines 877-890
FormatEmails(person) ==
    LET emails == getd(person, "emailAddresses", <<>>)
    IN [emails |-> Map(emails, FormatValueEntry)]
         @@ (IF emails # <<>>
               THEN [email |-> getd(emails[1], "value", "")]
               ELSE EmptyDict)

\* lines 892-905
FormatPhones(person) ==
    LET phones == getd(person, "phoneNumbers", <<>>)
    IN [phones |-> Map(phones, FormatValueEntry)]
         @@ (IF phones # <<>>
               THEN [phone |-> getd(phones[1], "value", "")]
               ELSE EmptyDict)

FormatAddressEntry(addr) ==
    [formatted |-> getd(addr, "formattedValue", ""),
     type |-> getd(addr, "type", ""),
     street |-> getd(addr, "streetAddress", ""),
     city |-> getd(addr, "city", ""),
     region |-> getd(addr, "region", ""),
     postal_code |-> getd(addr, "postalCode", ""),
     country |-> getd(addr, "country", "")]

\* lines 907-921
FormatAddresses(person) ==
    [addresses |-> Map(getd(person, "addresses", <<>>), FormatAddressEntry)]

\* lines 923-933
FormatOrganization(person) ==
    LET organizations == getd(person, "organizations", <<>>)
    IN IF organizations # <<>>
         THEN LET org == organizations[1]
              IN [organization |-> getd(org, "name", ""),
                  jobTitle |-> getd(org, "title", ""),
                  department |-> getd(org, "department", "")]
         ELSE EmptyDict

\* lines 935-944
FormatBirthday(person) ==
    LET birthdays == getd(person, "birthdays", <<>>)
    IN IF birthdays # <<>>
         THEN LET birthday == getd(birthdays[1], "date", EmptyDict)
              IN IF DOMAIN birthday # {}
                   THEN [birthday |-> [year |-> get(birthday, "year"),
                                       month |-> get(birthday, "month"),
                                       day |-> get(birthday, "day")]]
                   ELSE EmptyDict
         ELSE EmptyDict

\* the whole list replaced by its first entry
FormatUrls_firstOnly(person) ==
    LET urls == getd(person, "urls", <<>>)
    IN [urls |-> Map(IF urls = <<>> THEN <<>> ELSE <<urls[1]>>, FormatValueEntry)]

\* lines 946-956
FormatUrls(person) ==
    [urls |-> Map(getd(person, "urls", <<>>), FormatValueEntry)]

\* lines 958-961
FormatNotes(person) ==
    LET biographies == getd(person, "biographies", <<>>)
    IN IF biographies # <<>>
         THEN [notes |-> getd(biographies[1], "value", "")]
         ELSE EmptyDict

FormatRelationEntry(relation) ==
    [person |-> getd(relation, "person", ""), type |-> getd(relation, "type", ""),
     label |-> getd(relation, "formattedType", "")]

\* lines 963-973
FormatRelations(person) ==
    [relations |-> Map(getd(person, "relations", <<>>), FormatRelationEntry)]

FormatEventEntry(event) ==
    [type |-> getd(event, "type", ""), label |-> getd(event, "formattedType", "")]
      @@ (IF DOMAIN getd(event, "date", EmptyDict) # {}
            THEN [date |-> event["date"]]
            ELSE EmptyDict)

\* lines 975-982
FormatEvents(person) ==
    [events |-> Map(getd(person, "events", <<>>), FormatEventEntry)]

FormatCustomEntry(field) ==
    [key |-> getd(field, "key", ""), value |-> getd(field, "value", "")]

\* lines 984-990
FormatCustomFields(person) ==
    [customFields |-> Map(getd(person, "userDefined", <<>>), FormatCustomEntry)]

\* lines 992-995
FormatPhoto(person) ==
    LET photos == getd(person, "photos", <<>>)
    IN IF photos # <<>>
         THEN [photoUrl |-> getd(photos[1], "url", "")]
         ELSE EmptyDict

FormatGroupEntry(membership) ==
    [resourceName |-> getd(getd(membership, "contactGroupMembership", EmptyDict),
                           "contactGroupResourceName", "")]

\* a scalar defaulted instead of left out
FormatGroups_withDefault(person) ==
    [groups |-> Map(getd(person, "memberships", <<>>), FormatGroupEntry), photoUrl |-> ""]

\* lines 997-1007
FormatGroups(person) ==
    [groups |-> Map(getd(person, "memberships", <<>>), FormatGroupEntry)]

_format_contact_enhanced(person) ==
    FormatIdentity(person) @@ FormatNames(person) @@ FormatNickname(person)
      @@ FormatEmails(person) @@ FormatPhones(person) @@ FormatAddresses(person)
      @@ FormatOrganization(person) @@ FormatBirthday(person) @@ FormatUrls(person)
      @@ FormatNotes(person) @@ FormatRelations(person) @@ FormatEvents(person)
      @@ FormatCustomFields(person) @@ FormatPhoto(person) @@ FormatGroups(person)

\* a caller normalizes one raw person record
FormatContact ==
    /\ fmt.pc = "input"
    /\ fmt' = [pc |-> "done", person |-> fmt.person,
               contact |-> _format_contact_enhanced(fmt.person)]
    /\ UNCHANGED authVars
    /\ UNCHANGED bodyVars
    /\ UNCHANGED <<current_person, upd, lst>>
    /\ UNCHANGED opVars

InitFormat ==
    /\ AuthIdle
    /\ OpsIdle
    /\ contact_data = <<>>
    /\ bpc = "idle"
    /\ built = <<>>
    /\ current_person = <<>>
    /\ upd = [pc |-> "idle"]
    /\ lst = [pc |-> "idle"]
    /\ fmt \in { [pc |-> "input", person |-> p, contact |-> EmptyDict] : p \in PersonInputs }

NextFormat == FormatContact

SpecFormat == InitFormat /\ [][NextFormat]_vars

----------------------------------------------------------------------------
(* GoogleContactsService.update_contact *)

\* the contact every update of the model addresses
resource_name == "people/c1"

\* the same table with the job_title row left out
field_mapping_withoutJobTitle ==
    [given_name |-> "names", family_name |-> "names", nickname |-> "nicknames",
     email |-> "emailAddresses", emails |-> "emailAddresses",
     phone |-> "phoneNumbers", phones |-> "phoneNumbers",
     address |-> "addresses", addresses |-> "addresses",
     organization |-> "organizations",
     birthday |-> "birthdays", website |-> "urls", urls |-> "urls",
     notes |-> "biographies", relations |-> "relations", events |-> "events",
     custom_fields |-> "userDefined"]

\* lines 447-466
field_mapping ==
    [given_name |-> "names", family_name |-> "names", nickname |-> "nicknames",
     email |-> "emailAddresses", emails |-> "emailAddresses",
     phone |-> "phoneNumbers", phones |-> "phoneNumbers",
     address |-> "addresses", addresses |-> "addresses",
     organization |-> "organizations", job_title |-> "organizations",
     birthday |-> "birthdays", website |-> "urls", urls |-> "urls",
     notes |-> "biographies", relations |-> "relations", events |-> "events",
     custom_fields |-> "userDefined"]

\* lines 469-472
UpdateFields(cd) ==
    { field_mapping[input_field] : input_field \in DOMAIN cd \cap DOMAIN field_mapping }

\* the update goes on to the provider even with nothing to change
NothingToUpdate_never(update_fields) == FALSE

\* line 474: if not update_fields
NothingToUpdate(update_fields) == update_fields = {}

\* the record the provider holds after updateContact: the groups named in
\* updatePersonFields are taken from the body (and cleared when the body does
\* not hold them), the others are kept, and the etag changes
Updated(store, updatePersonFields, body) ==
    LET kept == DOMAIN store \ updatePersonFields
        taken == updatePersonFields \cap DOMAIN body
    IN [g \in kept \cup taken |->
          IF g = "etag" THEN "e2"
          ELSE IF g \in taken THEN body[g] ELSE store[g]]

\* the records the provider may hold for resource_name
StoredPersons ==
    {Identity, FullPerson}
      \cup UNION { { PersonWith(g :> l) : l \in [1..2 -> EntryPool[g]] } : g \in BuilderGroups }

\* a failed fetch taken for a record without fields
UpdateFetch_blind ==
    /\ upd.pc = "fetch"
    /\ \/ /\ current_person' = <<upd.store>>
          /\ upd' = [upd EXCEPT !.pc = "build", !.fetched = <<upd.store>>]
       \/ /\ current_person' = <<EmptyDict>>
          /\ upd' = [upd EXCEPT !.pc = "build"]
    /\ UNCHANGED <<contact_data, bpc, built, fmt, lst>>
    /\ UNCHANGED authVars
    /\ UNCHANGED opVars

\* lines 433-437: people().get() answers with the stored record or fails
UpdateFetch ==
    /\ upd.pc = "fetch"
    /\ \/ /\ current_person' = <<upd.store>>
          /\ upd' = [upd EXCEPT !.pc = "build", !.fetched = <<upd.store>>]
       \/ /\ upd' = [upd EXCEPT !.pc = "done", !.error = "GoogleContactsError"]
          /\ UNCHANGED current_person
    /\ UNCHANGED <<contact_data, bpc, built, fmt, lst>>
    /\ UNCHANGED authVars
    /\ UNCHANGED opVars

\* lines 439-475: the body, the changed groups, and the return without a write
\* when there are none; a ValueError of the builder is not caught by line 490
UpdateBuild ==
    /\ upd.pc = "build"
    /\ LET etag == get(current_person[1], "etag")
           b == _build_contact_body(contact_data, current_person)
           update_body == SetKey(SetKey(b.body, "etag", etag), "resourceName", resource_name)
           update_fields == UpdateFields(contact_data)
       IN /\ current_person' = b.current
          /\ IF b.raised
               THEN upd' = [upd EXCEPT !.pc = "done", !.error = "ValueError"]
               ELSE IF NothingToUpdate(update_fields)
                      THEN upd' = [upd EXCEPT !.pc = "done",
                                              !.update_fields = update_fields,
                                              !.ret = <<_format_contact_enhanced(b.current[1])>>]
                      ELSE upd' = [upd EXCEPT !.pc = "write",
                                              !.update_fields = update_fields,
                                              !.body = update_body]
    /\ UNCHANGED <<contact_data, bpc, built, fmt, lst>>
    /\ UNCHANGED authVars
    /\ UNCHANGED opVars

\* lines 478-491: updateContact answers with the updated record or fails
UpdateWrite ==
    /\ upd.pc = "write"
    /\ LET call == [resourceName |-> resource_name,
                    updatePersonFields |-> upd.update_fields,
                    body |-> upd.body]
           updated_person == Updated(upd.store, upd.update_fields, upd.body)
       IN \/ upd' = [upd EXCEPT !.pc = "done",
                                !.writes = Append(@, call),
                                !.store = updated_person,
                                !.ret = <<_format_contact_enhanced(updated_person)>>]
          \/ upd' = [upd EXCEPT !.pc = "done",
                                !.writes = Append(@, call),
                                !.error = "GoogleContactsError"]
    /\ UNCHANGED <<contact_data, bpc, built, current_person, fmt, lst>>
    /\ UNCHANGED authVars
    /\ UNCHANGED opVars

InitUpdate ==
    /\ AuthIdle
    /\ OpsIdle
    /\ contact_data \in KeyedInputs
    /\ bpc = "idle"
    /\ built = <<>>
    /\ current_person = <<>>
    /\ fmt = [pc |-> "idle"]
    /\ lst = [pc |-> "idle"]
    /\ upd \in { [pc |-> "fetch", fetched |-> <<>>, store |-> p, update_fields |-> {},
                  body |-> EmptyDict, writes |-> <<>>, ret |-> <<>>, error |-> ""]
                 : p \in StoredPersons }

NextUpdate == UpdateFetch \/ UpdateBuild \/ UpdateWrite

SpecUpdate == InitUpdate /\ [][NextUpdate]_vars

----------------------------------------------------------------------------
(* GoogleContactsService.list_contacts *)

MaxResults == 5
MaxStore == 6
MaxPage == 3

\* line 230: the page size the API accepts at most
GooglePageLimit == 1000

Min(a, b) == IF a <= b THEN a ELSE b

\* the strings of the listing and search models, by their characters
Spell ==
    ("" :> <<>>)
      @@ ("Al" :> <<"A", "l">>)
      @@ ("Bo" :> <<"B", "o">>)
      @@ ("AL" :> <<"A", "L">>)
      @@ ("Joann" :> <<"J", "o", "a", "n", "n">>)
      @@ ("joann@x" :> <<"j", "o", "a", "n", "n", "@", "x">>)
      @@ ("Ann" :> <<"A", "n", "n">>)
      @@ ("ANN@X" :> <<"A", "N", "N", "@", "X">>)
      @@ ("ann@x" :> <<"a", "n", "n", "@", "x">>)
      @@ ("zz" :> <<"z", "z">>)
      @@ ("value" :> <<"v", "a", "l", "u", "e">>)
      @@ ("people/1" :> <<"p", "e", "o", "p", "l", "e", "/", "1">>)
      @@ ("people/2" :> <<"p", "e", "o", "p", "l", "e", "/", "2">>)
      @@ ("people/3" :> <<"p", "e", "o", "p", "l", "e", "/", "3">>)
      @@ ("people/9" :> <<"p", "e", "o", "p", "l", "e", "/", "9">>)

Lowercase == [A |-> "a", B |-> "b", J |-> "j", L |-> "l", N |-> "n", X |-> "x"]

\* str.lower()
lower(chars) ==
    [i \in 1..Len(chars) |->
       IF chars[i] \in DOMAIN Lowercase THEN Lowercase[chars[i]] ELSE chars[i]]

\* sub in chars
Contains(sub, chars) ==
    \E i \in 0..(Len(chars) - Len(sub)) : SubSeq(chars, i + 1, i + Len(sub)) = sub

\* if name_filter
HasFilter(name_filter) == name_filter # <<>> /\ name_filter[1] # ""

\* lines 250-257: the contact passes the name filter
Matches(contact, name_filter) ==
    HasFilter(name_filter) =>
        LET filter_lower == lower(Spell[name_filter[1]])
        IN \E field \in {"displayName", "givenName", "familyName", "nickname"} :
               Contains(filter_lower, lower(Spell[getd(contact, field, "")]))

\* the whole page appended, whatever the maximum
Collect_wholePage(contacts, connections, name_filter, max_results) ==
    contacts \o SelectSeq(Map(connections, _format_contact_enhanced),
                          LAMBDA c : Matches(c, name_filter))

\* lines 246-262: the for loop over one page, left once max_results is reached
Collect(contacts, connections, name_filter, max_results) ==
    LET matching == SelectSeq(Map(connections, _format_contact_enhanced),
                              LAMBDA c : Matches(c, name_filter))
    IN contacts \o SubSeq(matching, 1, Min(Len(matching), max_results - Len(contacts)))

\* the people of the address book: one with a name, one with a nickname only
PersonKinds ==
    { [names |-> <<[displayName |-> "Al", givenName |-> "Al"]>>],
      [nicknames |-> <<[value |-> "Bo"]>>] }

\* an address book in provider order; resourceName tells the entries apart
Stores ==
    UNION { { [i \in 1..n |-> k[i] @@ [resourceName |-> i]] : k \in [1..n -> PersonKinds] }
            : n \in 0..MaxStore }

\* people().connections().list(): the page after offset pageToken. The server
\* cuts its pages at cap entries; it honours a smaller pageSize or always
\* reports full pages. nextPageToken 0 stands for a response without one.
Page(store, cap, fixed, pageSize, pageToken) ==
    LET n == IF fixed THEN cap ELSE Min(pageSize, cap)
        last == Min(pageToken + n, Len(store))
    IN [connections |-> SubSeq(store, pageToken + 1, last),
        nextPageToken |-> IF last < Len(store) THEN last ELSE 0]

\* lines 229-267, one pass of the while loop: a request, and its page taken in
ListPage ==
    /\ lst.pc = "loop"
    /\ Len(lst.contacts) < lst.max_results
    /\ LET page_size == Min(GooglePageLimit, lst.max_results - Len(lst.contacts))
           request == [pageSize |-> page_size, pageToken |-> lst.next_page_token,
                       collected |-> Len(lst.contacts)]
           results == Page(lst.store, lst.cap, lst.fixed, page_size, lst.next_page_token)
       IN \/ lst' = [lst EXCEPT !.pc = "done", !.requests = Append(@, request),
                                !.error = "GoogleContactsError"]
          \/ IF results.connections = <<>>
               THEN lst' = [lst EXCEPT !.pc = "done", !.requests = Append(@, request)]
               ELSE lst' = [lst EXCEPT
                              !.pc = IF results.nextPageToken = 0 THEN "done" ELSE "loop",
                              !.requests = Append(@, request),
                              !.contacts = Collect(@, results.connections,
                                                   lst.name_filter, lst.max_results),
                              !.next_page_token = results.nextPageToken]
    /\ UNCHANGED <<current_person, upd, fmt>>
    /\ UNCHANGED authVars
    /\ UNCHANGED bodyVars
    /\ UNCHANGED opVars

\* line 229 false: return contacts
ListReturn ==
    /\ lst.pc = "loop"
    /\ Len(lst.contacts) >= lst.max_results
    /\ lst' = [lst EXCEPT !.pc = "done"]
    /\ UNCHANGED <<current_person, upd, fmt>>
    /\ UNCHANGED authVars
    /\ UNCHANGED bodyVars
    /\ UNCHANGED opVars

\* the caller's max_results (0 for none given) with config.default_max_results,
\* which counts only when the caller gives none
MaxResultsInputs ==
    { [supplied |-> n, default_max_results |-> d] :
        n \in 0..MaxResults, d \in 1..MaxResults } \ 
    { [supplied |-> n, default_max_results |-> d] :
        n \in 1..MaxResults, d \in 1..(MaxResults - 1) }

NameFilters == { <<>>, <<"">>, <<"AL">> }

\* line 216 and lines 219-220
InitList ==
    /\ AuthIdle
    /\ OpsIdle
    /\ contact_data = <<>>
    /\ bpc = "idle"
    /\ built = <<>>
    /\ current_person = <<>>
    /\ upd = [pc |-> "idle"]
    /\ fmt = [pc |-> "idle"]
    /\ lst \in { [pc |-> "loop", store |-> store, cap |-> cap, fixed |-> fixed,
                  name_filter |-> name_filter, supplied |-> m.supplied,
                  max_results |-> IF m.supplied # 0 THEN m.supplied
                                                    ELSE m.default_max_results,
                  contacts |-> <<>>, next_page_token |-> 0, requests |-> <<>>,
                  error |-> ""]
                 : store \in Stores, cap \in 1..MaxPage, fixed \in BOOLEAN,
                   name_filter \in NameFilters, m \in MaxResultsInputs }

NextList == ListPage \/ ListReturn

SpecList == InitList /\ [][NextList]_vars

----------------------------------------------------------------------------
(* GoogleContactsService.search_contacts, _manual_search_contacts and    *)
(* get_contact                                                            *)

MaxBook == 3

\* line 293: the page size searchContacts accepts at most
SearchPageLimit == 50

\* max_results or config.default_max_results (line 216)
OrDefault(max_results, default_max_results) ==
    IF max_results # 0 THEN max_results ELSE default_max_results

\* list_contacts as _manual_search_contacts calls it: the while loop of lines
\* 229-267 run to its end against the paged provider, no request failing
RECURSIVE ListLoop(_, _, _, _, _, _, _)
ListLoop(store, cap, fixed, name_filter, max_results, contacts, next_page_token) ==
    IF Len(contacts) >= max_results
      THEN contacts
      ELSE LET page_size == Min(GooglePageLimit, max_results - Len(contacts))
               results == Page(store, cap, fixed, page_size, next_page_token)
           IN IF results.connections = <<>>
                THEN contacts
                ELSE LET collected == Collect(contacts, results.connections,
                                              name_filter, max_results)
                     IN IF results.nextPageToken = 0
                          THEN collected
                          ELSE ListLoop(store, cap, fixed, name_filter, max_results,
                                        collected, results.nextPageToken)

\* sub is a prefix of chars
IsPrefix(sub, chars) == Len(sub) <= Len(chars) /\ SubSeq(chars, 1, Len(sub)) = sub

\* str(item) of an entry of emails or phones: the repr of its dict
Repr(item) ==
    <<"{", "'", "v", "a", "l", "u", "e", "'", ":", " ", "'">> \o Spell[item.value]
      \o <<"'", ",", " ", "'", "t", "y", "p", "e", "'", ":", " ", "'">> \o Spell[item.type]
      \o <<"'", ",", " ", "'", "l", "a", "b", "e", "l", "'", ":", " ", "'">> \o Spell[item.label]
      \o <<"'", "}">>

\* lines 328-339
DefaultSearchFields ==
    <<"displayName", "givenName", "familyName", "nickname", "emails", "phones",
      "organization", "jobTitle">>

\* lines 342-355: some search field of the contact holds the query
MatchFound(contact, query_lower, search_fields) ==
    \E f \in 1..Len(search_fields) :
        LET field == search_fields[f]
        IN IF field \in {"emails", "phones"} /\ field \in DOMAIN contact
             THEN \E i \in 1..Len(contact[field]) :
                      Contains(query_lower, lower(Repr(contact[field][i])))
             ELSE LET field_value == getd(contact, field, "")
                  IN field_value # "" /\ Contains(query_lower, lower(Spell[field_value]))

\* lines 339-361: the loop over all_contacts, left once max_results is reached
RECURSIVE ManualLoop(_, _, _, _, _, _)
ManualLoop(all_contacts, i, matches, query_lower, max_results, search_fields) ==
    IF i > Len(all_contacts)
      THEN matches
      ELSE IF MatchFound(all_contacts[i], query_lower, search_fields)
             THEN LET appended == Append(matches, all_contacts[i])
                  IN IF Len(appended) >= max_results
                       THEN appended
                       ELSE ManualLoop(all_contacts, i + 1, appended, query_lower,
                                       max_results, search_fields)
             ELSE ManualLoop(all_contacts, i + 1, matches, query_lower,
                             max_results, search_fields)

\* lines 318-363, given the listing
_manual_search_contacts(all_contacts, query, max_results, search_fields) ==
    ManualLoop(all_contacts, 1, <<>>, lower(Spell[query]), max_results,
               IF search_fields = <<>> THEN DefaultSearchFields ELSE search_fields)

\* the values the provider's searchContacts looks at: names, nicknames and
\* email addresses
SearchableValues(person) ==
    LET names == getd(person, "names", <<>>)
        nicknames == getd(person, "nicknames", <<>>)
        emails == getd(person, "emailAddresses", <<>>)
    IN { getd(names[i], k, "") : i \in 1..Len(names),
                                  k \in {"displayName", "givenName", "familyName"} }
         \cup { getd(nicknames[i], "value", "") : i \in 1..Len(nicknames) }
         \cup { getd(emails[i], "value", "") : i \in 1..Len(emails) }

\* people().searchContacts(): the first pageSize people of which a value
\* starts with the query, case-insensitively, each wrapped as {"person": ...}
NativeResults(store, query, pageSize) ==
    LET hits == SelectSeq(store, LAMBDA person :
                    \E v \in SearchableValues(person) :
                        v # "" /\ IsPrefix(lower(Spell[query]), lower(Spell[v])))
    IN [i \in 1..Min(Len(hits), pageSize) |-> [person |-> hits[i]]]

\* lines 301-308: the results with a person, normalized, cut at max_results
NativeContacts(results, max_results) ==
    LET contacts == Map(SelectSeq(results, LAMBDA r :
                                     getd(r, "person", EmptyDict) # EmptyDict),
                        LAMBDA r : _format_contact_enhanced(r["person"]))
    IN SubSeq(contacts, 1, Min(Len(contacts), max_results))

\* what can fail inside the inner try block: the searchContacts call with an
\* HttpError or another exception, and the normalization of its results
NativeFailures ==
    { [step |-> "searchContacts", exc |-> "HttpError"],
      [step |-> "searchContacts", exc |-> "Exception"],
      [step |-> "normalize", exc |-> "Exception"] }

\* line 311: except HttpError
FallsBack(failure) == failure.exc = "HttpError"

\* where a finished search goes: back into get_contact or to the caller
AfterSearch(op) == IF op = "get" THEN "returned" ELSE "done"

\* every identifier taken for a resource name
IsResourceName_always(identifier) == TRUE

\* line 382: identifier.startswith("people/")
IsResourceName(identifier) ==
    IsPrefix(<<"p", "e", "o", "p", "l", "e", "/">>, Spell[identifier])

\* lines 287-316 up to the end of the inner try block
SearchNative ==
    /\ srch.pc = "native"
    /\ LET pageSize == Min(srch.max_results, SearchPageLimit)
           results == NativeResults(srch.store, srch.query, pageSize)
       IN \/ srch' = [srch EXCEPT !.pc = AfterSearch(srch.op),
                                  !.nativeCalls = @ + 1,
                                  !.contacts = NativeContacts(results, srch.max_results)]
          \/ \E failure \in NativeFailures :
               IF FallsBack(failure)
                 THEN srch' = [srch EXCEPT !.pc = "fallback",
                                           !.nativeCalls = @ + 1,
                                           !.failure = <<failure>>]
                 ELSE srch' = [srch EXCEPT !.pc = AfterSearch(srch.op),
                                           !.nativeCalls = @ + 1,
                                           !.failure = <<failure>>,
                                           !.error = "GoogleContactsError: Error searching contacts"]
    /\ UNCHANGED <<grp, tool>>
    /\ UNCHANGED authVars
    /\ UNCHANGED bodyVars
    /\ UNCHANGED callVars

\* lines 311-316 and 318-363: the manual search; a failed listing raises
\* GoogleContactsError, which line 315 wraps again
SearchFallback ==
    /\ srch.pc = "fallback"
    /\ \/ LET all_contacts == ListLoop(srch.store, srch.cap, srch.fixed, <<>>,
                                       OrDefault(srch.max_results * 3,
                                                 srch.default_max_results),
                                       <<>>, 0)
          IN srch' = [srch EXCEPT
                        !.pc = AfterSearch(srch.op),
                        !.fallbacks = @ + 1,
                        !.listed = <<all_contacts>>,
                        !.contacts = _manual_search_contacts(all_contacts, srch.query,
                                                             srch.max_results,
                                                             srch.search_fields)]
       \/ srch' = [srch EXCEPT !.pc = AfterSearch(srch.op),
                               !.fallbacks = @ + 1,
                               !.listFailed = TRUE,
                               !.error = "GoogleContactsError: Error searching contacts"]
    /\ UNCHANGED <<grp, tool>>
    /\ UNCHANGED authVars
    /\ UNCHANGED bodyVars
    /\ UNCHANGED callVars

\* lines 376-393: by resource name through people().get(), which fails for a
\* name the provider does not hold, or else through search_contacts
GetContact ==
    /\ srch.pc = "get"
    /\ IF IsResourceName(srch.identifier)
         THEN LET found == SelectSeq(srch.store, LAMBDA person :
                               getd(person, "resourceName", "") = srch.identifier)
              IN \/ /\ found # <<>>
                    /\ srch' = [srch EXCEPT !.pc = "done", !.getCalls = @ + 1,
                                            !.ret = <<_format_contact_enhanced(found[1])>>]
                 \/ srch' = [srch EXCEPT !.pc = "done", !.getCalls = @ + 1,
                                         !.error = "GoogleContactsError: Error getting contact"]
         ELSE srch' = [srch EXCEPT !.pc = "native", !.query = srch.identifier,
                                   !.max_results = 1, !.search_fields = <<>>]
    /\ UNCHANGED <<grp, tool>>
    /\ UNCHANGED authVars
    /\ UNCHANGED bodyVars
    /\ UNCHANGED callVars

\* lines 393-397: the first result, or not found; an error of search_contacts
\* passes through
GetReturn ==
    /\ srch.pc = "returned"
    /\ IF srch.error # ""
         THEN srch' = [srch EXCEPT !.pc = "done"]
         ELSE IF srch.contacts # <<>>
                THEN srch' = [srch EXCEPT !.pc = "done", !.ret = <<srch.contacts[1]>>]
                ELSE srch' = [srch EXCEPT !.pc = "done",
                                          !.error = "GoogleContactsError: not found"]
    /\ UNCHANGED <<grp, tool>>
    /\ UNCHANGED authVars
    /\ UNCHANGED bodyVars
    /\ UNCHANGED callVars

\* the people of the searched address book
SearchPersons ==
    { [resourceName |-> "people/1", names |-> <<[displayName |-> "Joann"]>>,
       emailAddresses |-> <<[value |-> "joann@x"]>>],
      [resourceName |-> "people/2", names |-> <<[displayName |-> "Ann"]>>,
       emailAddresses |-> <<[value |-> "ANN@X"]>>],
      [resourceName |-> "people/3", nicknames |-> <<[value |-> "ann@x"]>>] }

SearchStores == UNION { [1..n -> SearchPersons] : n \in 0..MaxBook }

\* the calls: search_contacts(query, max_results, search_fields) and
\* get_contact(identifier)
SearchCalls ==
    { [op |-> "search", identifier |-> "", query |-> q, max_results |-> m.supplied,
       default_max_results |-> m.default_max_results, search_fields |-> f] :
        q \in {"ann@x", "zz", "value"}, m \in MaxResultsInputs, f \in {<<>>, <<"emails">>} }
      \cup
    { [op |-> "get", identifier |-> id, query |-> "", max_results |-> 0,
       default_max_results |-> MaxResults, search_fields |-> <<>>] :
        id \in {"ann@x", "zz", "people/1", "people/9"} }

InitSearch ==
    /\ AuthIdle
    /\ BodyIdleButOps
    /\ grp = [pc |-> "idle"]
    /\ tool = [pc |-> "idle"]
    /\ srch \in { [pc |-> IF c.op = "get" THEN "get" ELSE "native",
                   op |-> c.op, identifier |-> c.identifier, query |-> c.query,
                   max_results |-> c.max_results,
                   default_max_results |-> c.default_max_results,
                   search_fields |-> c.search_fields,
                   store |-> store, cap |-> cap, fixed |-> fixed,
                   nativeCalls |-> 0, getCalls |-> 0, fallbacks |-> 0,
                   failure |-> <<>>, listed |-> <<>>, listFailed |-> FALSE,
                   contacts |-> <<>>, ret |-> <<>>, error |-> ""]
                  : c \in SearchCalls, store \in SearchStores,
                    cap \in 1..MaxPage, fixed \in BOOLEAN }

NextSearch == SearchNative \/ SearchFallback \/ GetContact \/ GetReturn

SpecSearch == InitSearch /\ [][NextSearch]_vars

----------------------------------------------------------------------------
(* GoogleContactsService.add_contacts_to_group and remove_contacts_from_group *)

MaxNames == 2

\* the contacts of the address book and a name the provider does not know
Book == {"people/1", "people/2"}
ContactNames == Book \cup {"people/9"}

\* the group of the call and another group
group_resource_name == "contactGroups/a"
ContactGroups == {group_resource_name, "contactGroups/b"}

\* every contact belongs to at least one group
Memberships == [Book -> SUBSET ContactGroups \ {{}}]

\* the requested names the provider reports in notFoundResourceNames
NotFound(names) == SelectSeq(names, LAMBDA n : n \notin Book)

\* the requested names the provider reports in
\* canNotRemoveLastContactGroupResourceNames
CanNotRemoveLast(names, groups) ==
    SelectSeq(names, LAMBDA n : n \in Book /\ groups[n] = {group_resource_name})

\* contactGroups().members().modify(): the memberships after the call. A
\* contact is not taken out of its only group.
Modified(groups, toAdd, toRemove) ==
    [c \in Book |->
       IF \E i \in 1..Len(toAdd) : toAdd[i] = c
         THEN groups[c] \cup {group_resource_name}
         ELSE IF (\E i \in 1..Len(toRemove) : toRemove[i] = c)
                   /\ groups[c] # {group_resource_name}
                THEN groups[c] \ {group_resource_name}
                ELSE groups[c]]

\* response.get(key, []): the provider leaves an empty list out of the response
Response(notFound, canNotRemove) ==
    (IF notFound # <<>> THEN [notFoundResourceNames |-> notFound] ELSE EmptyDict)
      @@ (IF canNotRemove # <<>>
            THEN [canNotRemoveLastContactGroupResourceNames |-> canNotRemove]
            ELSE EmptyDict)

\* lines 1146-1176
AddContactsToGroup ==
    /\ grp.pc = "call"
    /\ grp.op = "add"
    /\ LET contact_resource_names == grp.names
           response == Response(NotFound(contact_resource_names), <<>>)
       IN \/ grp' = [grp EXCEPT
                       !.pc = "done",
                       !.groups = Modified(@, contact_resource_names, <<>>),
                       !.ret = <<[success |-> TRUE,
                                  added_count |-> Len(contact_resource_names),
                                  not_found |-> getd(response, "notFoundResourceNames", <<>>),
                                  could_not_add |->
                                    getd(response, "canNotRemoveLastContactGroupResourceNames", <<>>)]>>]
          \/ grp' = [grp EXCEPT !.pc = "done", !.error = "GoogleContactsError"]
    /\ UNCHANGED <<srch, tool>>
    /\ UNCHANGED authVars
    /\ UNCHANGED bodyVars
    /\ UNCHANGED callVars

\* lines 1178-1208
RemoveContactsFromGroup ==
    /\ grp.pc = "call"
    /\ grp.op = "remove"
    /\ LET contact_resource_names == grp.names
           response == Response(NotFound(contact_resource_names),
                                CanNotRemoveLast(contact_resource_names, grp.groups))
       IN \/ grp' = [grp EXCEPT
                       !.pc = "done",
                       !.groups = Modified(@, <<>>, contact_resource_names),
                       !.ret = <<[success |-> TRUE,
                                  removed_count |-> Len(contact_resource_names),
                                  not_found |-> getd(response, "notFoundResourceNames", <<>>),
                                  could_not_remove |->
                                    getd(response, "canNotRemoveLastContactGroupResourceNames", <<>>)]>>]
          \/ grp' = [grp EXCEPT !.pc = "done", !.error = "GoogleContactsError"]
    /\ UNCHANGED <<srch, tool>>
    /\ UNCHANGED authVars
    /\ UNCHANGED bodyVars
    /\ UNCHANGED callVars

InitGroups ==
    /\ AuthIdle
    /\ BodyIdleButOps
    /\ srch = [pc |-> "idle"]
    /\ tool = [pc |-> "idle"]
    /\ grp \in { [pc |-> "call", op |-> op, names |-> names, before |-> groups,
                  groups |-> groups, ret |-> <<>>, error |-> ""]
                 : op \in {"add", "remove"},
                   names \in UNION { [1..n -> ContactNames] : n \in 1..MaxNames },
                   groups \in Memberships }

NextGroups == AddContactsToGroup \/ RemoveContactsFromGroup

SpecGroups == InitGroups /\ [][NextGroups]_vars

----------------------------------------------------------------------------
(* tools.register_tools: the registered tools *)

\* the tools with the message prefix of their except clause
ToolErrors ==
    [list_contacts |-> "Error: Failed to list contacts - ",
     search_contacts |-> "Error: Failed to search contacts - ",
     get_contact |-> "Error: Failed to get contact - ",
     create_contact |-> "Error: Failed to create contact - ",
     create_contact_advanced |-> "Error: Failed to create advanced contact - ",
     update_contact |-> "Error: Failed to update contact - ",
     update_contact_advanced |-> "Error: Failed to update advanced contact - ",
     delete_contact |-> "Error: Failed to delete contact - ",
     list_workspace_users |-> "Error: Failed to list Google Workspace users - ",
     search_directory |-> "Error: Failed to search directory - ",
     get_other_contacts |-> "Error: Failed to retrieve other contacts - ",
     list_contact_groups |-> "Error: Failed to list contact groups - ",
     create_contact_group |-> "Error: Failed to create contact group - ",
     get_contact_group |-> "Error: Failed to get contact group - ",
     update_contact_group |-> "Error: Failed to update contact group - ",
     delete_contact_group |-> "Error: Failed to delete contact group - ",
     add_contacts_to_group |-> "Error: Failed to add contacts to group - ",
     remove_contacts_from_group |-> "Error: Failed to remove contacts from group - ",
     search_contacts_by_group |-> "Error: Failed to search contacts by group - "]

Tools == DOMAIN ToolErrors

NotAvailable == "Error: Google Contacts service is not available. Please check your credentials."

\* what the service layer and the formatters raise inside a tool's try block
ExceptionClasses == {"GoogleContactsError", "Exception", "ValueError", "KeyError"}

\* a handler for the errors of the service layer only
Caught_onlyServiceErrors(exc) == exc = "GoogleContactsError"

\* except Exception: every class above derives from Exception
Caught(exc) == exc \in ExceptionClasses

\* how a call of init_service can go: a service (cached or constructed), no
\* usable credentials at any source, or an exception outside the constructors
InitOutcomes == {"service", "no_credentials", "Exception"}

\* tools.init_service, lines 32-62: the service, or None after the message of
\* line 56 or of the except clause of line 59
init_service(outcome) == outcome = "service"

\* service = init_service(); if not service: return "Error: ... not available"
ToolInit ==
    /\ tool.pc = "init"
    /\ \E outcome \in InitOutcomes :
         LET service == init_service(outcome)
         IN IF ~service
              THEN tool' = [tool EXCEPT !.pc = "done", !.init = outcome,
                                        !.service = FALSE, !.ret = <<NotAvailable>>]
              ELSE tool' = [tool EXCEPT !.pc = "call", !.init = outcome,
                                        !.service = TRUE]
    /\ UNCHANGED <<srch, grp>>
    /\ UNCHANGED authVars
    /\ UNCHANGED bodyVars
    /\ UNCHANGED callVars

\* the try block of the tool: the formatted result, or the message of the
\* except clause for what the service call or the formatter raised
ToolCall ==
    /\ tool.pc = "call"
    /\ \/ tool' = [tool EXCEPT !.pc = "done", !.ret = <<"result">>]
       \/ \E exc \in ExceptionClasses :
            IF Caught(exc)
              THEN tool' = [tool EXCEPT !.pc = "done", !.raised = exc,
                                        !.ret = <<ToolErrors[tool.name]>>]
              ELSE tool' = [tool EXCEPT !.pc = "done", !.raised = exc, !.escaped = exc]
    /\ UNCHANGED <<srch, grp>>
    /\ UNCHANGED authVars
    /\ UNCHANGED bodyVars
    /\ UNCHANGED callVars

InitTools ==
    /\ AuthIdle
    /\ BodyIdleButOps
    /\ srch = [pc |-> "idle"]
    /\ grp = [pc |-> "idle"]
    /\ tool \in { [pc |-> "init", name |-> name, init |-> "", service |-> FALSE, raised |-> "",
                   escaped |-> "", ret |-> <<>>] : name \in Tools }

NextTools == ToolInit \/ ToolCall

SpecTools == InitTools /\ [][NextTools]_vars

----------------------------------------------------------------------------
(* Properties of the credential lifecycle *)

InAuthenticate == {"load", "decide", "refreshing", "granting", "open", "write", "build"}

\* C1: within one process the interactive grant flow (run_local_server) is
\* started at most once, over any sequence of init_service calls.
C1_AtMostOneGrant == grantCount <= 1

\* C2: with init_service called from concurrent threads, at most one
\* _authenticate execution (refresh or grant) is in progress at any time and
\* all callers that get a service get the same instance.
C2_SingleFlight ==
    /\ Cardinality({ t \in Tasks : pc[t] \in InAuthenticate }) <= 1
    /\ \A t, u \in Tasks : (result[t] > 0 /\ result[u] > 0) => result[t] = result[u]

\* C3: once init_service has returned a service, the cached handle is never
\* replaced, every later call returns that same instance, and no further
\* _authenticate run, grant or token write happens.
C3_Idempotent ==
    [][ (\E t \in Tasks : result[t] > 0) =>
          /\ contacts_service # 0
          /\ contacts_service' = contacts_service
          /\ \A t \in Tasks : result[t] > 0 => result[t] = contacts_service
          /\ \A t \in Tasks : result'[t] # result[t] => result'[t] = contacts_service
          /\ authRuns' = authRuns
          /\ grantCount' = grantCount
          /\ tokenFile' = tokenFile
          /\ \A t \in Tasks : pc'[t] = "idle" ]_vars

C3_Witness ==
    /\ calls >= 2
    /\ authRuns = 1
    /\ result[1] > 0
    /\ result[2] = result[1]

\* C4: the token store never holds a partially written record: it holds a
\* complete record or none at every point of _authenticate.
C4_NoPartialToken == tokenFile.kind # "truncated"

\* C5: a run of _authenticate that built its credential from the configured
\* refresh secret (no stored token) never starts the interactive grant flow.
C5_RefreshSecretNoGrant ==
    \A t \in Tasks : via[t] = "env_refresh" => pc[t] # "granting"

\* C6: a failed refresh surfaces as an authentication error only when no
\* interactive path is available (client identity missing); otherwise the
\* lifecycle goes on to the interactive grant.
C6_RefreshFailureFallsBack ==
    \A t \in Tasks :
        (pc[t] = "failed" /\ err[t] = "refresh_failed") => ~credentials_info[t]

\* C7: a stored token file that cannot be parsed is treated as absent:
\* _authenticate does not fail because of it.
C7_MalformedTokenAsAbsent ==
    \A t \in Tasks :
        ~(tokenFile.kind = "malformed" /\ pc[t] = "failed" /\ err[t] = "token_parse")

\* C8: when _authenticate goes on to build and return a session whose
\* credential came from a refresh or a grant, the token store already holds
\* exactly that credential.
C8_PersistedBeforeReturn ==
    \A t \in Tasks :
        (pc[t] \in {"build", "assign"} /\ via[t] \in {"refresh", "grant"}) =>
            /\ tokenFile.kind = "record"
            /\ tokenFile.data = creds[t]

C8_Witness ==
    \E t \in Tasks :
        /\ pc[t] = "assign"
        /\ via[t] = "grant"
        /\ creds[t][1].refresh_token

\* C9: with client identity missing and no credential that is usable or can
\* be refreshed, the constructor ends in a GoogleContactsError, starts no
\* interactive grant and leaves the token store as it is.
C9_MissingIdentityFatal ==
    [][ \A t \in Tasks :
          ( \/ (pc[t] = "from_env" /\ ~envClient)
            \/ /\ pc[t] = "decide"
               /\ ~credentials_info[t]
               /\ \/ creds[t] = <<>>
                  \/ /\ ~(creds[t][1].token /\ creds[t][1].expiry # "past")
                     /\ ~(creds[t][1].refresh_token /\ creds[t][1].expiry = "past") )
          => /\ pc'[t] \in {pc[t], "failed"}
             /\ pc'[t] = "failed" => err'[t] \in {"missing_env", "no_info"}
             /\ grantCount' = grantCount
             /\ tokenFile' = tokenFile ]_vars

C9_Witness ==
    \E t \in Tasks :
        /\ pc[t] = "failed"
        /\ err[t] = "no_info"
        /\ grantCount = 0

----------------------------------------------------------------------------
(* Properties of _build_contact_body *)

IsoDate(s) ==
    /\ Len(s) = 10
    /\ s[5] = "-"
    /\ s[8] = "-"
    /\ \A i \in {1, 2, 3, 4, 6, 7, 9, 10} : s[i] \in Digits

\* C10: a birthday string of the form YYYY-MM-DD yields
\* birthdays = [{date: {year, month, day}}]; every other string yields a body
\* without birthdays; no string makes the builder raise.
C10_BirthdayParsedOrDropped ==
    (bpc = "done" /\ "birthday" \in DOMAIN contact_data /\ contact_data["birthday"].isstr) =>
        LET s == contact_data["birthday"].chars
        IN /\ ~built.raised
           /\ IsoDate(s) =>
                /\ "birthdays" \in DOMAIN built.body
                /\ built.body["birthdays"] =
                     <<[date |-> [year |-> 1000 * DigitVal[s[1]] + 100 * DigitVal[s[2]]
                                             + 10 * DigitVal[s[3]] + DigitVal[s[4]],
                                  month |-> 10 * DigitVal[s[6]] + DigitVal[s[7]],
                                  day |-> 10 * DigitVal[s[9]] + DigitVal[s[10]]]]>>
           /\ ~IsoDate(s) => "birthdays" \notin DOMAIN built.body

----------------------------------------------------------------------------
(* Properties of _format_contact_enhanced *)

ListAttrs == {"emails", "phones", "addresses", "urls", "relations", "events",
              "customFields", "groups"}

ScalarAttrs == {"givenName", "familyName", "displayName", "middleName", "honorificPrefix",
                "honorificSuffix", "nickname", "email", "phone", "organization", "jobTitle",
                "department", "birthday", "notes", "photoUrl"}

ZeroPopulated(person) == \A g \in FieldGroups : getd(person, g, <<>>) = <<>>

\* C15: a raw person record with no populated field group is normalized to a
\* Contact whose list-valued attributes are all empty sequences and whose
\* scalar attributes are all absent.
C15_EmptyPersonEmptyContact ==
    (fmt.pc = "done" /\ ZeroPopulated(fmt.person)) =>
        /\ \A a \in ListAttrs : a \in DOMAIN fmt.contact /\ fmt.contact[a] = <<>>
        /\ \A a \in ScalarAttrs : a \notin DOMAIN fmt.contact

C15_Witness ==
    /\ fmt.pc = "done"
    /\ ZeroPopulated(fmt.person)
    /\ "names" \in DOMAIN fmt.person
    /\ fmt.contact["emails"] = <<>>

\* C16: in every normalized Contact, email is present exactly when emails is
\* non-empty and then equals emails[0].value; the same for phone and phones.
C16_LegacyFieldsAgree ==
    fmt.pc = "done" =>
        LET c == fmt.contact
        IN /\ ("email" \in DOMAIN c) <=> (c["emails"] # <<>>)
           /\ "email" \in DOMAIN c => c["email"] = c["emails"][1]["value"]
           /\ ("phone" \in DOMAIN c) <=> (c["phones"] # <<>>)
           /\ "phone" \in DOMAIN c => c["phone"] = c["phones"][1]["value"]

C16_Witness ==
    /\ fmt.pc = "done"
    /\ Len(fmt.contact["emails"]) >= 2
    /\ fmt.contact["emails"][1]["value"] # fmt.contact["emails"][2]["value"]
    /\ fmt.contact["email"] = "a@x"
    /\ fmt.contact["phones"] # <<>>

\* for each multi-valued attribute, its provider group and the provider
\* field each of its fields is read from
SourceOf ==
    [emails |-> [group |-> "emailAddresses",
                 fields |-> [value |-> "value", type |-> "type", label |-> "formattedType"]],
     phones |-> [group |-> "phoneNumbers",
                 fields |-> [value |-> "value", type |-> "type", label |-> "formattedType"]],
     addresses |-> [group |-> "addresses",
                    fields |-> [formatted |-> "formattedValue", type |-> "type",
                                street |-> "streetAddress", city |-> "city", region |-> "region",
                                postal_code |-> "postalCode", country |-> "country"]],
     urls |-> [group |-> "urls",
               fields |-> [value |-> "value", type |-> "type", label |-> "formattedType"]],
     relations |-> [group |-> "relations",
                    fields |-> [person |-> "person", type |-> "type", label |-> "formattedType"]],
     events |-> [group |-> "events",
                 fields |-> [type |-> "type", label |-> "formattedType"]],
     customFields |-> [group |-> "userDefined",
                       fields |-> [key |-> "key", value |-> "value"]]]

\* C17: every multi-valued output sequence has the length of the provider's
\* group and its i-th entry is read from the provider's i-th entry.
C17_OrderPreserved ==
    fmt.pc = "done" =>
        \A a \in DOMAIN SourceOf :
            LET src == getd(fmt.person, SourceOf[a].group, <<>>)
                out == fmt.contact[a]
            IN /\ Len(out) = Len(src)
               /\ \A i \in 1..Len(src) :
                    \A f \in DOMAIN SourceOf[a].fields :
                        out[i][f] = getd(src[i], SourceOf[a].fields[f], "")

C17_Witness ==
    /\ fmt.pc = "done"
    /\ "urls" \in DOMAIN fmt.person
    /\ Len(fmt.person["urls"]) = MaxEntries
    /\ fmt.person["urls"][1] # fmt.person["urls"][2]
    /\ Len(fmt.contact["urls"]) = MaxEntries

\* C18: a birthday date with month and day but no year is emitted with year
\* absent and month and day present; a date with only one of month and day
\* is not emitted, the Contact has no birthday.
C18_PartialBirthdayDropped ==
    (fmt.pc = "done" /\ getd(fmt.person, "birthdays", <<>>) # <<>>) =>
        LET d == getd(fmt.person["birthdays"][1], "date", EmptyDict)
            c == fmt.contact
        IN /\ ({"month", "day"} \subseteq DOMAIN d /\ "year" \notin DOMAIN d) =>
                /\ "birthday" \in DOMAIN c
                /\ c["birthday"]["year"] = <<>>
                /\ c["birthday"]["month"] = <<d["month"]>>
                /\ c["birthday"]["day"] = <<d["day"]>>
           /\ (("month" \in DOMAIN d) # ("day" \in DOMAIN d)) => "birthday" \notin DOMAIN c

----------------------------------------------------------------------------
(* Properties of the update body *)

\* the legacy singular keys with their plural key and provider group
LegacyKeys ==
    { [singular |-> "email", plural |-> "emails", group |-> "emailAddresses"],
      [singular |-> "phone", plural |-> "phones", group |-> "phoneNumbers"] }

\* C11: for emails and phones, a body built from the singular key (email /
\* phone, the plural key not being supplied) against a current record with
\* n >= 1 entries holds a group of length n whose entry 0 has the new value
\* and whose entries 1..n-1 are the current record's, in the same order
C11_SingularReplacesFirstOnly ==
    (bpc = "done" /\ ~built.raised /\ current_person # <<>>) =>
        \A k \in LegacyKeys :
            ( /\ k.singular \in DOMAIN contact_data
              /\ k.plural \notin DOMAIN contact_data
              /\ k.group \in DOMAIN current_person[1]
              /\ Len(current_person[1][k.group]) >= 1 ) =>
                LET old == current_person[1][k.group]
                    new == built.body[k.group]
                IN /\ Len(new) = Len(old)
                   /\ new[1]["value"] = contact_data[k.singular]
                   /\ \A i \in 2..Len(old) : new[i] = old[i]

\* an email set against three existing emails
C11_Witness ==
    /\ bpc = "done"
    /\ ~built.raised
    /\ "email" \in DOMAIN contact_data
    /\ "emails" \notin DOMAIN contact_data
    /\ current_person # <<>>
    /\ "emailAddresses" \in DOMAIN current_person[1]
    /\ Len(current_person[1]["emailAddresses"]) = 3
    /\ current_person[1]["emailAddresses"][1] # built.body["emailAddresses"][1]
    /\ built.body["emailAddresses"][1]["value"] = contact_data["email"]
    /\ built.body["emailAddresses"][3] = current_person[1]["emailAddresses"][3]

\* the singular-simple keys with their provider group
SimpleKeys ==
    { [key |-> "given_name", group |-> "names"],
      [key |-> "family_name", group |-> "names"],
      [key |-> "nickname", group |-> "nicknames"],
      [key |-> "notes", group |-> "biographies"],
      [key |-> "website", group |-> "urls"] }

\* C12: a body built from a singular-simple key (given_name, family_name,
\* nickname, notes, website) against a current record keeps every element of
\* the key's group after the first: same length, entries 1..n-1 unchanged
C12_SimpleKeysKeepOtherEntries ==
    (bpc = "done" /\ ~built.raised /\ current_person # <<>>) =>
        \A k \in SimpleKeys :
            ( /\ k.key \in DOMAIN contact_data
              /\ "urls" \notin DOMAIN contact_data
              /\ k.group \in DOMAIN current_person[1]
              /\ Len(current_person[1][k.group]) >= 1 ) =>
                LET old == current_person[1][k.group]
                    new == built.body[k.group]
                IN /\ Len(new) = Len(old)
                   /\ \A i \in 2..Len(old) : new[i] = old[i]


----------------------------------------------------------------------------
(* Properties of update_contact *)

\* the field-group table of the contract, by provider group
KeysOfGroup ==
    [names |-> {"given_name", "family_name"}, nicknames |-> {"nickname"},
     emailAddresses |-> {"email", "emails"}, phoneNumbers |-> {"phone", "phones"},
     addresses |-> {"address", "addresses"},
     organizations |-> {"organization", "job_title"},
     birthdays |-> {"birthday"}, urls |-> {"website", "urls"},
     biographies |-> {"notes"}, relations |-> {"relations"}, events |-> {"events"},
     userDefined |-> {"custom_fields"}]

ChangedGroups(cd) == { g \in DOMAIN KeysOfGroup : KeysOfGroup[g] \cap DOMAIN cd # {} }

\* C13: every updateContact call of an update names as updatePersonFields
\* exactly the groups the supplied keys map to in the field-group table, and
\* its body holds no provider field group outside that set
C13_ChangedGroupsExact ==
    upd.pc \in {"write", "done"} =>
        /\ upd.pc = "write" =>
             /\ upd.update_fields = ChangedGroups(contact_data)
             /\ DOMAIN upd.body \ {"etag", "resourceName"} \subseteq upd.update_fields
        /\ \A i \in 1..Len(upd.writes) :
             /\ upd.writes[i].updatePersonFields = ChangedGroups(contact_data)
             /\ DOMAIN upd.writes[i].body \ {"etag", "resourceName"}
                  \subseteq upd.writes[i].updatePersonFields

\* an update of the nickname alone was written with {nicknames}
C13_Witness ==
    /\ upd.pc = "done"
    /\ DOMAIN contact_data = {"nickname"}
    /\ Len(upd.writes) = 1
    /\ upd.writes[1].updatePersonFields = {"nicknames"}
    /\ DOMAIN upd.writes[1].body = {"nicknames", "etag", "resourceName"}
    /\ "names" \in DOMAIN upd.fetched[1]

\* C14: an update whose field set holds no recognized key, once the current
\* record is fetched, derives the empty changed-group set, calls updateContact
\* never, and returns the normalized form of the fetched record, which it
\* leaves as fetched
C14_NoRecognizedKeyNoWrite ==
    ( /\ upd.pc \in {"build", "write", "done"}
      /\ DOMAIN contact_data \cap RecognizedKeys = {}
      /\ current_person # <<>> ) =>
        /\ upd.pc # "write"
        /\ upd.writes = <<>>
        /\ <<upd.store>> = upd.fetched
        /\ upd.pc = "done" =>
             /\ upd.update_fields = {}
             /\ upd.error = ""
             /\ current_person = upd.fetched
             /\ upd.ret = <<_format_contact_enhanced(upd.fetched[1])>>

\* an update with only an unknown key has returned a contact with names
C14_Witness ==
    /\ upd.pc = "done"
    /\ DOMAIN contact_data = {"middle_name"}
    /\ upd.error = ""
    /\ upd.writes = <<>>
    /\ upd.ret # <<>>
    /\ upd.fetched # <<>>
    /\ "names" \in DOMAIN upd.fetched[1]
    /\ "givenName" \in DOMAIN upd.ret[1]

----------------------------------------------------------------------------
(* Properties of list_contacts *)

\* the least k with k * c >= n
Ceil(n, c) == (n + c - 1) \div c

\* C19: list_contacts without a name filter and with max_results = N >= 1,
\* when no request fails, returns the first min(N, L) of the provider's L
\* contacts in provider order; it makes ceil(min(N, L) / c) page fetches for
\* pages of c contacts (one fetch for an empty address book), hence stops at
\* the first missing page token when L < N; and every request is made while
\* fewer than N contacts are collected
C19_FirstNWithMinimalFetches ==
    (lst.pc \in {"loop", "done"} /\ ~HasFilter(lst.name_filter) /\ lst.supplied >= 1) =>
        LET N == lst.supplied
            L == Len(lst.store)
            k == Min(N, L)
        IN /\ \A i \in 1..Len(lst.requests) : lst.requests[i].collected < N
           /\ (lst.pc = "done" /\ lst.error = "") =>
                /\ lst.contacts = [i \in 1..k |-> _format_contact_enhanced(lst.store[i])]
                /\ Len(lst.requests) = IF L = 0 THEN 1 ELSE Ceil(k, lst.cap)
                /\ L < N => lst.next_page_token = 0

\* five contacts listed from three pages of two
C19_Witness ==
    /\ lst.pc = "done"
    /\ lst.error = ""
    /\ lst.name_filter = <<>>
    /\ lst.supplied = 5
    /\ lst.cap = 2
    /\ lst.fixed
    /\ Len(lst.store) = 6
    /\ Len(lst.requests) = 3
    /\ Len(lst.contacts) = 5

\* C20: for every name filter, one list call with max_results >= 1 performs
\* at most max_results page fetches
C20_FetchesBoundedByMax ==
    (lst.pc \in {"loop", "done"} /\ lst.supplied >= 1) =>
        Len(lst.requests) <= lst.supplied

----------------------------------------------------------------------------
(* Further properties of update_contact and _build_contact_body *)

\* C24: update_contact fetches the current record before any write: every
\* updateContact call is made after a successful fetch, with the etag of the
\* fetched record and its resourceName in the body; when the fetch fails the
\* call ends in a GoogleContactsError and no updateContact call is issued
C24_FetchBeforeWrite ==
    upd.pc \in {"fetch", "build", "write", "done"} =>
        /\ upd.pc \in {"fetch", "build"} => upd.writes = <<>>
        /\ (upd.pc \in {"write", "done"} /\ upd.fetched = <<>>) =>
             /\ upd.pc = "done"
             /\ upd.error = "GoogleContactsError"
             /\ upd.writes = <<>>
        /\ upd.pc = "write" =>
             /\ upd.body["etag"] = get(upd.fetched[1], "etag")
             /\ <<upd.body["resourceName"]>> = get(upd.fetched[1], "resourceName")
        /\ \A i \in 1..Len(upd.writes) :
             /\ upd.fetched # <<>>
             /\ upd.writes[i].body["etag"] = get(upd.fetched[1], "etag")
             /\ <<upd.writes[i].body["resourceName"]>> = get(upd.fetched[1], "resourceName")
             /\ upd.writes[i].resourceName = upd.writes[i].body["resourceName"]

\* an update written with the fetched etag
C24_Witness ==
    /\ upd.pc = "done"
    /\ upd.fetched # <<>>
    /\ Len(upd.writes) = 1
    /\ upd.writes[1].body["etag"] = <<"e1">>
    /\ upd.error = ""

\* C27: _build_contact_body leaves its inputs as they are: after the call the
\* current record, the dictionaries nested in its groups included, equals
\* the record passed in
C27_InputsUnchanged ==
    bpc = "done" => built.current = current_person

\* C28: in every updateContact call each group named in updatePersonFields
\* is present in the write body
C28_ChangedGroupsInBody ==
    upd.pc \in {"write", "done"} =>
        /\ upd.pc = "write" => upd.update_fields \subseteq DOMAIN upd.body
        /\ \A i \in 1..Len(upd.writes) :
             upd.writes[i].updatePersonFields \subseteq DOMAIN upd.writes[i].body

----------------------------------------------------------------------------
(* Further properties of the credential lifecycle *)

\* the token store holds a credential that is valid and not expired
ValidStored == tokenFile.kind = "record" /\ valid(tokenFile.data[1])

\* C30: while the token store holds a valid, unexpired credential, no step
\* of init_service refreshes a token, starts a grant or writes the token
\* store; _authenticate takes the stored credential, also when a refresh
\* secret is configured, and goes straight on to build the session, for a
\* client identity from the environment and from a credentials file alike;
\* a constructor fails only for a missing or unreadable client identity or
\* in build itself
C30_ValidTokenUsedAsIs ==
    [][ ValidStored =>
          /\ tokenFile' = tokenFile
          /\ grantCount' = grantCount
          /\ \A t \in Tasks :
               /\ pc'[t] \notin {"refreshing", "granting", "open", "write"}
               /\ (pc[t] = "load" /\ pc'[t] # "load") =>
                    /\ pc'[t] = "decide"
                    /\ creds'[t] = tokenFile.data
                    /\ via'[t] = "stored"
               /\ (pc[t] = "decide" /\ pc'[t] # "decide") => pc'[t] = "build"
               /\ (pc[t] # "failed" /\ pc'[t] = "failed") =>
                    err'[t] \in {"missing_env", "bad_file", "build_failed"} ]_vars

\* a session built from the stored token although a refresh secret is set,
\* with the client identity taken from a credentials file
C30_Witness ==
    \E t \in Tasks :
        /\ ValidStored
        /\ pc[t] = "assign"
        /\ via[t] = "stored"
        /\ source[t] = "file"
        /\ envRefresh
        /\ credentials_info[t]
        /\ grantCount = 0

----------------------------------------------------------------------------
(* Properties of the group membership calls *)

\* the contacts whose memberships the call changed
Affected == { c \in Book : grp.groups[c] # grp.before[c] }

\* C25: a remove_contacts_from_group call that returns reports as
\* removed_count the number of contacts actually taken out of the group, and
\* when a contact stays in its only group (reported in could_not_remove)
\* the result is not a success
C25_CountIsAffected ==
    (grp.pc = "done" /\ grp.op = "remove" /\ grp.error = "") =>
        /\ grp.ret[1].removed_count = Cardinality(Affected)
        /\ grp.ret[1].could_not_remove # <<>> => ~grp.ret[1].success

----------------------------------------------------------------------------
(* Properties of the registered tools *)

\* C26: every tool invocation ends with a message string and lets no
\* exception out: the 'service is not available' message when init_service
\* gives no service, and the tool's failure message for whatever the service
\* layer raised
C26_ToolsReturnMessages ==
    tool.pc = "done" =>
        /\ tool.escaped = ""
        /\ tool.ret # <<>>
        /\ tool.init # "service" => tool.ret = <<NotAvailable>>
        /\ tool.raised # "" => tool.ret = <<ToolErrors[tool.name]>>

\* update_contact answered a ValueError of the body builder with its message
C26_Witness ==
    /\ tool.pc = "done"
    /\ tool.name = "update_contact"
    /\ tool.raised = "ValueError"
    /\ tool.ret = <<"Error: Failed to update contact - ">>

----------------------------------------------------------------------------
(* Properties of search_contacts and get_contact *)

SearchingError == "GoogleContactsError: Error searching contacts"
NotFoundError == "GoogleContactsError: not found"

\* the search fields of the call
FieldsOf(search_fields) ==
    IF search_fields = <<>> THEN DefaultSearchFields ELSE search_fields

\* C21: when searchContacts fails and the fallback completes, at most
\* 3 x max_results contacts were listed and, for every max_results >= 0, the
\* result holds at most max_results contacts: the first ones of the listing
\* that contain the query in a search field, in listing order
C21_FallbackAtMostMax ==
    (srch.op = "search" /\ srch.pc = "done" /\ srch.fallbacks = 1 /\ srch.error = "") =>
        LET matching == SelectSeq(srch.listed[1], LAMBDA c :
                            MatchFound(c, lower(Spell[srch.query]),
                                       FieldsOf(srch.search_fields)))
        IN /\ Len(srch.listed[1]) <= 3 * srch.max_results
           /\ Len(srch.contacts) <= srch.max_results
           /\ srch.contacts = SubSeq(matching, 1, Len(srch.contacts))

HttpErrorOfSearch == [step |-> "searchContacts", exc |-> "HttpError"]

\* C22: the fallback runs if and only if the searchContacts call itself
\* failed: every failure of that call leads to the manual search, no failure
\* of the normalization or of the fallback's own listing triggers or
\* re-triggers it, and a failure of the fallback ends the call in a
\* GoogleContactsError
C22_FallbackOnEverySearchFailure ==
    srch.pc \in {"native", "fallback", "returned", "done"} =>
        /\ srch.nativeCalls <= 1
        /\ srch.fallbacks <= 1
        /\ (srch.pc = "fallback" \/ srch.fallbacks = 1) <=>
             (srch.failure # <<>> /\ srch.failure[1].step = "searchContacts")
        /\ srch.listFailed =>
             /\ srch.fallbacks = 1
             /\ srch.pc \in {"returned", "done"}
             /\ srch.error = SearchingError
             /\ srch.ret = <<>>

\* the identifier does not start with "people/"
NotAResourceName(identifier) ==
    \/ Len(Spell[identifier]) < 7
    \/ SubSeq(Spell[identifier], 1, 7) # <<"p", "e", "o", "p", "l", "e", "/">>

\* C23: get_contact with an identifier that does not start with "people/"
\* never calls people().get(); it runs search_contacts(identifier,
\* max_results=1) once, returns the first result when there is one and
\* raises the not-found GoogleContactsError when the search returns none
C23_GetByEmailSearches ==
    (srch.op = "get" /\ NotAResourceName(srch.identifier)) =>
        /\ srch.getCalls = 0
        /\ srch.pc # "get" =>
             /\ srch.query = srch.identifier
             /\ srch.max_results = 1
        /\ srch.pc \in {"returned", "done"} => srch.nativeCalls = 1
        /\ srch.pc = "done" =>
             /\ srch.error \in {"", NotFoundError, SearchingError}
             /\ srch.error = "" => srch.contacts # <<>> /\ srch.ret = <<srch.contacts[1]>>
             /\ srch.error = NotFoundError => srch.contacts = <<>> /\ srch.ret = <<>>
             /\ srch.error = SearchingError =>
                  (srch.listFailed \/ srch.failure \notin {<<>>, <<HttpErrorOfSearch>>})

\* an unknown address ended in not found, a known one in its contact
C23_Witness ==
    /\ srch.op = "get"
    /\ srch.pc = "done"
    /\ srch.getCalls = 0
    /\ srch.nativeCalls = 1
    /\ \/ srch.identifier = "zz" /\ srch.error = NotFoundError /\ srch.store # <<>>
       \/ srch.identifier = "ann@x" /\ srch.ret # <<>>

\* C29: a contact returned by get_contact for an email address has that
\* address, compared case-insensitively, as the value of one of its emails
C29_ReturnedContactHasEmail ==
    (srch.op = "get" /\ NotAResourceName(srch.identifier)
       /\ srch.pc = "done" /\ srch.ret # <<>>) =>
        \E i \in 1..Len(srch.ret[1]["emails"]) :
            lower(Spell[srch.ret[1]["emails"][i].value]) = lower(Spell[srch.identifier])

====
